---------------------------- MODULE Spec2Model ----------------------------
(***************************************************************************)
(* A state-machine model of ReshardingOplogApplier                         *)
(* (src/mongo/db/s/resharding/resharding_oplog_applier.cpp): the batch     *)
(* pipeline (_scheduleNextBatch), the partitioning of a batch into writer  *)
(* vectors (_fillWriterVectors), the fan-out to the writer pool and the    *)
(* completion accounting (_applyBatch, _onWriterVectorDone), the handler   *)
(* of derived retryable-write no-ops                                       *)
(* (insertOplogAndUpdateConfigForRetryable) and the progress record        *)
(* (_clearAppliedOpsAndStoreProgress, checkStoredProgress).                *)
(*                                                                         *)
(* The donor's oplog, the destination's collections and the session        *)
(* catalog are collaborators; their state is part of the model so that     *)
(* a process restart can be followed.                                      *)
(***************************************************************************)
EXTENDS Integers, Sequences, FiniteSets, TLC

(***************************************************************************)
(* Bounds of the model.                                                    *)
(***************************************************************************)
\* _writerPool->getStats().numThreads: the number of writer slots.
NumThreads == 2
\* The longest batch the donor oplog iterator returns.
MaxBatchLen == 2
\* The number of non-empty batches the donor oplog holds.
MaxBatches == 2
\* The number of times the process is restarted (after a crash or an error).
MaxRestarts == 1

(***************************************************************************)
(* Values.                                                                 *)
(***************************************************************************)
Sessions == {1, 2}
NoSession == 0
Docs == {1, 2}
Slots == 0 .. (NumThreads - 1)

\* The stream this applier owns (_sourceId), and another stream's identity.
MySourceId == "donorA"
OtherSourceId == "donorB"
SourceIds == {MySourceId, OtherSourceId}

\* Timestamps are the positions 1, 2, ... of the records in the donor oplog.
\* _reshardingCloneFinishedTs.
CloneFinishedTs == 2

kStarted == "kStarted"
kReachedCloningTS == "kReachedCloningTS"
kFinished == "kFinished"
kErrorOccurred == "kErrorOccurred"

\* Status values: a code and, for a writer slot's status, the slot.
St(code, slot) == [code |-> code, slot |-> slot]
StatusOK == St("OK", -1)
IsOK(status) == status.code = "OK"

\* The object of a derived no-op: BSON("$resharding" << 1).
kReshardingOplogTag == "$resharding"

\* RetryableOpsList::txnNum before any record of the session was seen.
kUninitializedTxnNumber == -1

(***************************************************************************)
(* Oplog entries.  op: "i" insert, "u" update, "d" delete, "c" command,    *)
(* "n" no-op.  prep: "prepare" for shouldPrepare(), "commit" for           *)
(* isPreparedCommit().  img: whether a pre- or post-image entry is         *)
(* attached.  o2 of a derived no-op is the serialized original entry.      *)
(***************************************************************************)
Shape(op, doc, lsid, txn, stmt, img) ==
    [op |-> op, ns |-> "nsBeingResharded", uuid |-> "uuidBeingResharded",
     doc |-> doc, lsid |-> lsid, txn |-> txn, stmt |-> stmt,
     prep |-> "none", img |-> img, obj |-> "doc", o2 |-> <<>>]

\* The kinds of entries the donor oplog holds in this model.
RecordShapes ==
    { Shape("i", 1, 1, 1, 0, "none"),
      Shape("u", 2, 1, 1, 1, "post"),
      Shape("u", 1, 1, 2, 0, "none"),
      Shape("i", 2, 2, 1, 0, "none"),
      Shape("d", 1, NoSession, 0, 0, "none"),
      Shape("n", 0, 1, 2, 0, "none"),
      [Shape("i", 1, NoSession, 0, 0, "none") EXCEPT !.ns = "otherNs"],
      [Shape("i", 1, NoSession, 0, 0, "none") EXCEPT !.uuid = "otherUuid"],
      [Shape("c", 0, NoSession, 0, 0, "none") EXCEPT !.prep = "prepare"],
      [Shape("c", 0, NoSession, 0, 0, "none") EXCEPT !.prep = "commit"] }

\* Sequences of at most n elements of S.
SeqUpTo(S, n) == UNION { [1 .. k -> S] : k \in 0 .. n }

\* A batch of shapes as the iterator returns it: the entries carry their
\* position in the donor oplog as _id ({clusterTime, ts}) and timestamp.
Stamp(shapes, base) ==
    [i \in 1 .. Len(shapes) |->
        [op |-> shapes[i].op, ns |-> shapes[i].ns, uuid |-> shapes[i].uuid,
         doc |-> shapes[i].doc, lsid |-> shapes[i].lsid, txn |-> shapes[i].txn,
         stmt |-> shapes[i].stmt, prep |-> shapes[i].prep, img |-> shapes[i].img,
         obj |-> shapes[i].obj, o2 |-> shapes[i].o2,
         id |-> [clusterTime |-> base + i, ts |-> base + i],
         ts |-> base + i]]


(***************************************************************************)
(* _preProcessAndPushOpsToBuffer.                                          *)
(***************************************************************************)
\* A faulty variant: the collection uuid of the entry is not compared.
PreProcessCheck_NsOnly(oplog) ==
    IF oplog.ns # "nsBeingResharded" THEN St("NsMismatch5012002", -1)
    ELSE StatusOK

\* The status of the uasserts 5012002 and 5012005 for one fetched entry.
PreProcessCheck(oplog) ==
    IF oplog.ns # "nsBeingResharded" THEN St("NsMismatch5012002", -1)
    ELSE IF oplog.uuid # "uuidBeingResharded" THEN St("UuidMismatch5012005", -1)
    ELSE StatusOK

\* The entry pushed to _currentBatchToApply: the same entry on _outputNs,
\* without a collection uuid.
PreProcessed(oplog) == [oplog EXCEPT !.ns = "outputNs", !.uuid = "none"]

\* The loop of _scheduleNextBatch over the fetched batch: the buffer it
\* leaves and the status of the first uassert that fails, if any.
RECURSIVE PreProcessBatch(_, _, _)
PreProcessBatch(batch, i, buffer) ==
    IF i > Len(batch) THEN [status |-> StatusOK, buffer |-> buffer]
    ELSE IF ~IsOK(PreProcessCheck(batch[i]))
         THEN [status |-> PreProcessCheck(batch[i]), buffer |-> buffer]
         ELSE PreProcessBatch(batch, i + 1, Append(buffer, PreProcessed(batch[i])))

(***************************************************************************)
(* _fillWriterVectors and its helpers.                                     *)
(***************************************************************************)
IsCrudOpType(opType) == opType \in {"i", "u", "d"}

\* The hashes of the routing rules.  The namespace hash of _outputNs, the
\* hash of a document's _id and LogicalSessionIdHash are fixed functions.
NsHash(ns) == IF ns = "outputNs" THEN 0 ELSE 1
DocIdHash(doc) == doc
LogicalSessionIdHash(lsid) == lsid

\* repl::OplogApplierUtils::addToWriterVector: the slot is the hash of the
\* namespace, combined with the hash of the document's _id for a CRUD entry;
\* the entry is appended to that slot.
WriterIdOfOp(op, numWriters) ==
    (NsHash(op.ns) + (IF IsCrudOpType(op.op) THEN DocIdHash(op.doc) ELSE 0)) % numWriters

addToWriterVector(writerVectors, op) ==
    LET writerId == WriterIdOfOp(op, NumThreads)
    IN  [writerVectors EXCEPT ![writerId] = Append(@, op)]

\* The full serialized form of an entry (oplog.getEntry().toBSON()).
Serialize(oplog) ==
    << oplog.ts, oplog.op, oplog.ns, oplog.doc, oplog.lsid, oplog.txn,
       oplog.stmt, oplog.img >>

\* A faulty variant: the pre/post image of the entry is not copied.
convertToNoOpWithReshardingTag_NoImage(oplog) ==
    [op |-> "n", ns |-> oplog.ns, uuid |-> "none", doc |-> 0,
     lsid |-> oplog.lsid, txn |-> oplog.txn, stmt |-> oplog.stmt,
     prep |-> "none", img |-> "none",
     obj |-> kReshardingOplogTag, o2 |-> Serialize(oplog),
     id |-> oplog.id, ts |-> oplog.ts]

convertToNoOpWithReshardingTag(oplog) ==
    [op |-> "n", ns |-> oplog.ns, uuid |-> "none", doc |-> 0,
     lsid |-> oplog.lsid, txn |-> oplog.txn, stmt |-> oplog.stmt,
     prep |-> "none", img |-> oplog.img,
     obj |-> kReshardingOplogTag, o2 |-> Serialize(oplog),
     id |-> oplog.id, ts |-> oplog.ts]

\* A faulty variant: the slot of a derived entry taken from its statement id.
DerivedWriterId_ByStatement(op, numWriters) == op.stmt % numWriters

\* The slot of a derived entry: hasher(*op.getSessionId()) % writerVectors->size().
DerivedWriterId(op, numWriters) == LogicalSessionIdHash(op.lsid) % numWriters

\* A faulty variant: the derived entries put in front of their slot.
RECURSIVE addDerivedOpsToWriterVector_Prepend(_, _, _)
addDerivedOpsToWriterVector_Prepend(writerVectors, derivedOps, i) ==
    IF i > Len(derivedOps) THEN writerVectors
    ELSE addDerivedOpsToWriterVector_Prepend(
            [writerVectors EXCEPT
                ![LogicalSessionIdHash(derivedOps[i].lsid) % NumThreads] =
                    <<derivedOps[i]>> \o @],
            derivedOps, i + 1)

RECURSIVE addDerivedOpsToWriterVector(_, _, _)
addDerivedOpsToWriterVector(writerVectors, derivedOps, i) ==
    IF i > Len(derivedOps) THEN writerVectors
    ELSE addDerivedOpsToWriterVector(
            [writerVectors EXCEPT
                ![DerivedWriterId(derivedOps[i], NumThreads)] = Append(@, derivedOps[i])],
            derivedOps, i + 1)

\* sessionTracker before the scan: operator[] default-constructs the list
\* of a session on first use.
EmptyTracker == [l \in Sessions |-> [txnNum |-> kUninitializedTxnNumber, ops |-> <<>>]]

\* A faulty variant: a record with the tracked transaction number restarts
\* the list.
TrackOp_EqualRestarts(list, op) ==
    IF list.txnNum <= op.txn
        THEN [ok |-> TRUE, list |-> [txnNum |-> op.txn, ops |-> <<op>>]]
    ELSE [ok |-> FALSE, list |-> list]

\* A faulty variant: a greater transaction number is appended to the list.
TrackOp_GreaterAppends(list, op) ==
    IF list.txnNum <= op.txn
        THEN [ok |-> TRUE, list |-> [txnNum |-> op.txn, ops |-> Append(list.ops, op)]]
    ELSE [ok |-> FALSE, list |-> list]

\* A faulty variant: a lower transaction number restarts the list.
TrackOp_LowerRestarts(list, op) ==
    IF list.txnNum = op.txn
        THEN [ok |-> TRUE, list |-> [list EXCEPT !.ops = Append(@, op)]]
    ELSE [ok |-> TRUE, list |-> [txnNum |-> op.txn, ops |-> <<op>>]]

\* The update of a session's RetryableOpsList for one entry; ok is FALSE
\* for uasserted(4990401).
TrackOp(list, op) ==
    IF list.txnNum = op.txn
        THEN [ok |-> TRUE, list |-> [list EXCEPT !.ops = Append(@, op)]]
    ELSE IF list.txnNum < op.txn
        THEN [ok |-> TRUE, list |-> [txnNum |-> op.txn, ops |-> <<op>>]]
    ELSE [ok |-> FALSE, list |-> list]

\* A faulty variant: no entry is left out of the scan.
SkippedInScan_Nothing(op) == FALSE

\* Lines 450-451: a no-op of the batch is left out.
SkippedInScan(op) == op.op = "n"

\* The first loop of _fillWriterVectors, from entry i on.
RECURSIVE FillScan(_, _, _, _)
FillScan(batch, i, writerVectors, tracker) ==
    IF i > Len(batch)
        THEN [status |-> StatusOK, writerVectors |-> writerVectors, tracker |-> tracker]
    ELSE LET op == batch[i] IN
        IF op.prep = "prepare"
            THEN [status |-> St("Prepared5012000", -1),
                  writerVectors |-> writerVectors, tracker |-> tracker]
        ELSE IF op.prep = "commit"
            THEN [status |-> St("Prepared5012001", -1),
                  writerVectors |-> writerVectors, tracker |-> tracker]
        ELSE IF SkippedInScan(op)
            THEN FillScan(batch, i + 1, writerVectors, tracker)
        ELSE IF op.lsid = NoSession
            THEN FillScan(batch, i + 1, addToWriterVector(writerVectors, op), tracker)
        ELSE LET t == TrackOp(tracker[op.lsid], op) IN
            IF t.ok
                THEN FillScan(batch, i + 1, addToWriterVector(writerVectors, op),
                              [tracker EXCEPT ![op.lsid] = t.list])
                ELSE [status |-> St("OutOfOrderTxn4990401", -1),
                      writerVectors |-> addToWriterVector(writerVectors, op),
                      tracker |-> tracker]

\* The second loop: one derived entry per tracked entry, the sessions taken
\* in the iteration order of the hash map (order).
RECURSIVE DeriveOps(_, _, _)
DeriveOps(tracker, order, k) ==
    IF k > Len(order) THEN <<>>
    ELSE [j \in 1 .. Len(tracker[order[k]].ops) |->
              convertToNoOpWithReshardingTag(tracker[order[k]].ops[j])]
         \o DeriveOps(tracker, order, k + 1)

Reverse(seq) == [i \in 1 .. Len(seq) |-> seq[Len(seq) + 1 - i]]

\* A faulty variant: the first loop scans the batch from its end.
fillWriterVectors_ReverseScan(batch, derivedOps, order) ==
    LET scan == FillScan(Reverse(batch), 1, [w \in Slots |-> <<>>], EmptyTracker)
        derived == derivedOps \o DeriveOps(scan.tracker, order, 1)
    IN  IF ~IsOK(scan.status)
            THEN [status |-> scan.status, derivedOps |-> derivedOps,
                  writerVectors |-> [w \in Slots |-> <<>>]]
            ELSE [status |-> StatusOK, derivedOps |-> derived,
                  writerVectors |-> addDerivedOpsToWriterVector(scan.writerVectors, derived, 1)]

\* _fillWriterVectors(batch, derivedOps): the status (an exception of the
\* first loop leaves derivedOps as it was), the derived entries and the
\* writer vectors.
fillWriterVectors(batch, derivedOps, order) ==
    LET scan == FillScan(batch, 1, [w \in Slots |-> <<>>], EmptyTracker)
        derived == derivedOps \o DeriveOps(scan.tracker, order, 1)
    IN  IF ~IsOK(scan.status)
            THEN [status |-> scan.status, derivedOps |-> derivedOps,
                  writerVectors |-> [w \in Slots |-> <<>>]]
            ELSE [status |-> StatusOK, derivedOps |-> derived,
                  writerVectors |-> addDerivedOpsToWriterVector(scan.writerVectors, derived, 1)]

\* The iteration orders of a hash map keyed by the sessions.
SessionOrders ==
    { o \in [1 .. Cardinality(Sessions) -> Sessions] :
            \A a, b \in 1 .. Cardinality(Sessions) : a # b => o[a] # o[b] }

(***************************************************************************)
(* The destination.  docs: the value of each document of the output        *)
(* collection (0: absent; otherwise the timestamp of the entry that wrote  *)
(* it).  cmds: the commands applied.  sessions: config.transactions, the   *)
(* transaction number and the executed statements of each session.         *)
(* markers: the number of marker entries logged for each (session,         *)
(* transaction number, statement).  images: the number of pre/post image   *)
(* entries logged.  incomplete: the sessions whose history is truncated.   *)
(***************************************************************************)
StmtIds == {0, 1}
TxnNumbers == {1, 2}
MarkerKeys == Sessions \X TxnNumbers \X StmtIds

EmptyDest(incomplete) ==
    [docs |-> [d \in Docs |-> 0],
     cmds |-> {},
     sessions |-> [l \in Sessions |-> [txn |-> kUninitializedTxnNumber, stmts |-> {}]],
     markers |-> [k \in MarkerKeys |-> 0],
     images |-> 0,
     incomplete |-> incomplete]

\* _applicationRules.applyOperation: an insert writes the document, an
\* update rewrites it when it exists, a delete removes it.
applyOperation(dest, op) ==
    IF op.op = "i" THEN [dest EXCEPT !.docs[op.doc] = op.ts]
    ELSE IF op.op = "u"
        THEN [dest EXCEPT !.docs[op.doc] = IF @ = 0 THEN 0 ELSE op.ts]
    ELSE [dest EXCEPT !.docs[op.doc] = 0]

\* _applicationRules.applyCommand.
applyCommand(dest, op) == [dest EXCEPT !.cmds = @ \cup {op.ts}]

\* isRetryableNoOp: a no-op whose object is the resharding tag.
isRetryableNoOp(op) == op.op = "n" /\ op.obj = kReshardingOplogTag

\* TransactionParticipant::beginOrContinue and checkStatementExecuted, as
\* insertOplogAndUpdateConfigForRetryable uses them: "TransactionTooOld" for
\* a transaction number below the session's, "executed" for a statement the
\* session has recorded, "IncompleteTransactionHistory" when the session's
\* history is truncated, and "new" otherwise.
checkStatementExecuted(dest, op) ==
    LET s == dest.sessions[op.lsid] IN
    IF op.txn < s.txn THEN "TransactionTooOld"
    ELSE IF op.txn = s.txn /\ op.stmt \in s.stmts THEN "executed"
    ELSE IF op.lsid \in dest.incomplete THEN "IncompleteTransactionHistory"
    ELSE "new"

\* A faulty variant: the statement is not looked up among the executed ones.
RetryableSkips_NoExecutedCheck(dest, op) ==
    checkStatementExecuted(dest, op) \in {"TransactionTooOld", "IncompleteTransactionHistory"}

\* A faulty variant: TransactionTooOld is not caught as a skip.
RetryableSkips_TooOldWritten(dest, op) ==
    checkStatementExecuted(dest, op) \in {"executed", "IncompleteTransactionHistory"}

\* Lines 129-155: TRUE when the handler returns Status::OK() without
\* writing anything.
RetryableSkips(dest, op) == checkStatementExecuted(dest, op) # "new"

\* insertPrePostImageOplogEntry: its own unit of work, committed before
\* the marker is written.
insertPrePostImageOplogEntry(dest, op) == [dest EXCEPT !.images = @ + 1]

\* TransactionParticipant::onRetryableWriteCloningCompleted.
onRetryableWriteCloningCompleted(dest, op) ==
    [dest EXCEPT !.sessions[op.lsid] =
        [txn |-> op.txn,
         stmts |-> (IF @.txn = op.txn THEN @.stmts ELSE {}) \cup {op.stmt}]]

\* A faulty variant: the marker entry is logged and the session record is
\* left as it was.
UpdateConfigTransaction_MarkerOnly(dest, op) ==
    [dest EXCEPT !.markers = [k \in MarkerKeys |->
        IF k = <<op.lsid, op.txn, op.stmt>> THEN @[k] + 1 ELSE @[k]]]

\* Lines 182-211: the marker entry and the session record, in one unit of
\* work.
UpdateConfigTransaction(dest, op) ==
    onRetryableWriteCloningCompleted(
        [dest EXCEPT !.markers = [k \in MarkerKeys |->
            IF k = <<op.lsid, op.txn, op.stmt>> THEN @[k] + 1 ELSE @[k]]], op)

\* insertOplogAndUpdateConfigForRetryable run to its end.
insertOplogAndUpdateConfigForRetryable(dest, op) ==
    IF RetryableSkips(dest, op) THEN dest
    ELSE UpdateConfigTransaction(
            IF op.img # "none" THEN insertPrePostImageOplogEntry(dest, op) ELSE dest, op)

\* _applyOplogEntryOrGroupedInserts run to its end.
applyOplogEntryOrGroupedInserts(dest, op) ==
    IF isRetryableNoOp(op) THEN insertOplogAndUpdateConfigForRetryable(dest, op)
    ELSE IF op.op = "n" THEN dest
    ELSE IF IsCrudOpType(op.op) THEN applyOperation(dest, op)
    ELSE applyCommand(dest, op)

(***************************************************************************)
(* The progress collection: documents {oplogSourceId, progress}.           *)
(***************************************************************************)
\* ReshardingDonorOplogId::parse of an entry's _id, and toBSON of the result.
ParseDonorOplogId(id) == [clusterTime |-> id.clusterTime, ts |-> id.ts]

\* store.upsert(query on the source id, $set progress).
UpsertProgress(store, sourceId, oplogId) ==
    { d \in store : d.oplogSourceId # sourceId }
        \cup { [oplogSourceId |-> sourceId, progress |-> oplogId] }

\* The last entry of a batch of the donor oplog.
LastOplog(batch) == batch[Len(batch)]

\* A faulty variant: the first entry of the batch.
LastApplied_Front(batch) == batch[1]

\* A faulty variant: the last entry of the batch that is not a no-op, when
\* there is one.
LastApplied_LastRealOp(batch) ==
    LET real == { i \in 1 .. Len(batch) : batch[i].op # "n" }
    IN  IF real = {} THEN batch[Len(batch)]
        ELSE batch[CHOOSE i \in real : \A j \in real : j <= i]

\* _currentBatchToApply.back(): the entry whose _id becomes the progress.
LastApplied(batch) == batch[Len(batch)]

\* checkStoredProgress: <<>> for boost::none, otherwise the document found.
checkStoredProgress(store, sourceId) ==
    IF \E d \in store : d.oplogSourceId = sourceId
        THEN << CHOOSE d \in store : d.oplogSourceId = sourceId >>
        ELSE <<>>

\* The timestamp a fresh iterator resumes after.
ResumeTs(store, sourceId) ==
    IF checkStoredProgress(store, sourceId) = <<>> THEN 0
    ELSE checkStoredProgress(store, sourceId)[1].progress.ts

(***************************************************************************)
(* State.                                                                  *)
(***************************************************************************)
VARIABLES
    \* The applier instance (lost when the process restarts).
    stage,                          \* _stage
    pc,                             \* the step of the future chain that runs next
    result,                         \* the status of the future the entry point returned
    pendingError,                   \* the status travelling to onError
    aborted,                        \* an invariant() failed
    iterToken,                      \* the timestamp _oplogIter resumes after
    fetched,                        \* the batch getNextBatch returned
    currentBatchToApply,            \* _currentBatchToApply
    currentDerivedOps,              \* _currentDerivedOps
    currentWriterVectors,           \* _currentWriterVectors
    remainingWritersToWait,         \* _remainingWritersToWait
    currentBatchConsolidatedStatus, \* _currentBatchConsolidatedStatus
    currentApplyBatchPromise,       \* _currentApplyBatchPromise
    loopIdx,                        \* the slot the loop of _applyBatch handles next
    writer,                         \* per slot: the work item and its report
    mutex,                          \* the slot whose report holds _mutex, or NoOwner
    \* The donor, the destination and the process (kept across restarts).
    donorLog,                       \* the batches of the donor oplog after the progress
    nextTs,                         \* the timestamp of the donor's last entry
    produced,                       \* the number of batches the donor has produced
    dest,                           \* the destination
    progressStore,                  \* the progress collection
    restarts,                       \* the number of restarts so far
    \* History, for stating properties.
    expected,                       \* the destination of a run without failures
    applied,                        \* the entries applied from the current batch
    badReports,                     \* the non-OK statuses reported for the current batch
    progressAtFetch,                \* the progress collection when the last batch was fetched
    appliedBefore,                  \* the derived entries earlier instances applied
    ckptLast,                       \* <<_id of the last entry of the last batch checkpointed>>
    entered,                        \* the stage the entry point called last requires
    reports,                        \* the reports of the current batch, in the order of _mutex
    completions                     \* the slots whose reports readied the promise of the batch

instanceVars ==
    << stage, pc, result, pendingError, aborted, iterToken, fetched,
       currentBatchToApply, currentDerivedOps, currentWriterVectors,
       remainingWritersToWait, currentBatchConsolidatedStatus,
       currentApplyBatchPromise, loopIdx, writer, mutex >>
worldVars == << donorLog, nextTs, produced, dest, progressStore, restarts >>
historyVars ==
    << expected, applied, badReports, progressAtFetch, appliedBefore, ckptLast,
       entered, reports, completions >>
vars == << instanceVars, worldVars, historyVars >>

NoStatus == St("none", -1)
PromiseUnset == St("unset", -1)
PromisePending == St("pending", -1)

\* _mutex is free.
NoOwner == -1
\* No entry point has been called.
NotEntered == "none"

IdleWriter == [st |-> "idle", idx |-> 0, imageDone |-> FALSE, status |-> NoStatus,
               inline |-> FALSE]

\* The progress collection before this stream has stored anything: it
\* holds another stream's progress.
InitialStore ==
    { [oplogSourceId |-> OtherSourceId, progress |-> [clusterTime |-> 9, ts |-> 9]] }

\* A freshly constructed applier.
FreshInstance ==
    /\ stage = kStarted
    /\ pc = "idle"
    /\ result = NoStatus
    /\ pendingError = NoStatus
    /\ aborted = FALSE
    /\ fetched = <<>>
    /\ currentBatchToApply = <<>>
    /\ currentDerivedOps = <<>>
    /\ currentWriterVectors = [w \in Slots |-> <<>>]
    /\ remainingWritersToWait = 0
    /\ currentBatchConsolidatedStatus = StatusOK
    /\ currentApplyBatchPromise = PromiseUnset
    /\ loopIdx = 0
    /\ writer = [w \in Slots |-> IdleWriter]
    /\ mutex = NoOwner

Init ==
    /\ FreshInstance
    /\ iterToken = 0
    /\ donorLog = <<>>
    /\ nextTs = 0
    /\ produced = 0
    /\ \E inc \in {{}, {2}} : /\ dest = EmptyDest(inc)
                              /\ expected = EmptyDest(inc)
    /\ progressStore = InitialStore
    /\ restarts = 0
    /\ applied = {}
    /\ badReports = {}
    /\ progressAtFetch = InitialStore
    /\ appliedBefore = {}
    /\ ckptLast = <<>>
    /\ entered = NotEntered
    /\ reports = <<>>
    /\ completions = <<>>

(***************************************************************************)
(* The destination a run without failures reaches for a batch: the         *)
(* entries of every writer vector applied in order.                        *)
(***************************************************************************)
RECURSIVE ApplyAll(_, _, _)
ApplyAll(d, ops, i) ==
    IF i > Len(ops) THEN d
    ELSE ApplyAll(applyOplogEntryOrGroupedInserts(d, ops[i]), ops, i + 1)

RECURSIVE ApplySlots(_, _, _)
ApplySlots(d, writerVectors, w) ==
    IF w >= NumThreads THEN d
    ELSE ApplySlots(ApplyAll(d, writerVectors[w], 1), writerVectors, w + 1)

FailureFree(d, batch) ==
    LET pre == PreProcessBatch(batch, 1, <<>>)
        fill == fillWriterVectors(pre.buffer, <<>>, CHOOSE o \in SessionOrders : TRUE)
    IN  IF IsOK(pre.status) /\ IsOK(fill.status)
            THEN ApplySlots(d, fill.writerVectors, 0)
            ELSE d

(***************************************************************************)
(* The entry points and the future chain of _scheduleNextBatch.            *)
(***************************************************************************)
batchVars ==
    << currentBatchToApply, currentDerivedOps, currentWriterVectors >>
accountingVars ==
    << remainingWritersToWait, currentBatchConsolidatedStatus,
       currentApplyBatchPromise, loopIdx, writer, mutex >>
batchHistoryVars == << reports, completions >>
donorVars == << donorLog, nextTs, produced >>

\* A faulty variant: the entry point does not check the stage.
EnterAt_AnyStage(required) ==
    /\ pc = "idle"
    /\ ~aborted
    /\ pc' = "fetch"
    /\ result' = NoStatus
    /\ entered' = required
    /\ UNCHANGED << stage, pendingError, aborted, iterToken, fetched, batchVars,
                    accountingVars, worldVars, expected, applied, badReports,
                    progressAtFetch, appliedBefore, ckptLast, batchHistoryVars >>

\* invariant(_stage == required); then the chain starts at _scheduleNextBatch.
EnterAt(required) ==
    /\ pc = "idle"
    /\ ~aborted
    /\ IF stage = required
          THEN /\ pc' = "fetch"
               /\ result' = NoStatus
               /\ aborted' = aborted
          ELSE /\ aborted' = TRUE
               /\ UNCHANGED << pc, result >>
    /\ entered' = required
    /\ UNCHANGED << stage, pendingError, iterToken, fetched, batchVars,
                    accountingVars, worldVars, expected, applied, badReports,
                    progressAtFetch, appliedBefore, ckptLast, batchHistoryVars >>

applyUntilCloneFinishedTs == EnterAt(kStarted)

applyUntilDone == EnterAt(kReachedCloningTS)

\* The batches of the donor oplog the iterator has not returned yet.
PendingBatches == SelectSeq(donorLog, LAMBDA b : LastOplog(b).ts > iterToken)

\* The batch of the donor oplog the iterator returned last.
InFlightBatch ==
    LET last == SelectSeq(donorLog, LAMBDA b : LastOplog(b).ts = iterToken)
    IN  IF last = <<>> THEN <<>> ELSE last[1]

\* _oplogIter->getNextBatch fails.
getNextBatchFails ==
    /\ pc = "fetch"
    /\ ~aborted
    /\ pendingError' = St("FetchFailed", -1)
    /\ pc' = "onError"
    /\ UNCHANGED << stage, result, aborted, iterToken, fetched, batchVars,
                    accountingVars, worldVars, historyVars >>

\* _oplogIter->getNextBatch returns the next batch of the donor oplog: one
\* produced before the restart, a new one, or none.
getNextBatch ==
    /\ pc = "fetch"
    /\ ~aborted
    /\ \/ /\ PendingBatches # <<>>
          /\ fetched' = PendingBatches[1]
          /\ iterToken' = LastOplog(PendingBatches[1]).ts
          /\ UNCHANGED << donorVars, expected >>
       \/ /\ PendingBatches = <<>>
          /\ produced < MaxBatches
          /\ \E shapes \in SeqUpTo(RecordShapes, MaxBatchLen) \ {<<>>} :
                LET batch == Stamp(shapes, nextTs) IN
                /\ fetched' = batch
                /\ iterToken' = LastOplog(batch).ts
                /\ donorLog' = Append(donorLog, batch)
                /\ nextTs' = nextTs + Len(batch)
                /\ produced' = produced + 1
                /\ expected' = FailureFree(expected, batch)
       \/ /\ PendingBatches = <<>>
          /\ fetched' = <<>>
          /\ UNCHANGED << iterToken, donorVars, expected >>
    /\ pc' = "preprocess"
    /\ progressAtFetch' = progressStore
    /\ UNCHANGED << stage, result, pendingError, aborted, batchVars,
                    accountingVars, dest, progressStore, restarts, applied,
                    badReports, appliedBefore, ckptLast, entered,
                    batchHistoryVars >>

\* The loop over the fetched batch that calls _preProcessAndPushOpsToBuffer.
preProcessAndPushOpsToBuffer ==
    /\ pc = "preprocess"
    /\ ~aborted
    /\ LET r == PreProcessBatch(fetched, 1, currentBatchToApply) IN
        /\ currentBatchToApply' = r.buffer
        /\ IF IsOK(r.status)
              THEN /\ pc' = "applyBatch"
                   /\ pendingError' = pendingError
              ELSE /\ pc' = "onError"
                   /\ pendingError' = r.status
    /\ fetched' = <<>>
    /\ UNCHANGED << stage, result, aborted, iterToken, currentDerivedOps,
                    currentWriterVectors, accountingVars, worldVars, historyVars >>

(***************************************************************************)
(* _applyBatch: the writer vectors, the promise and the counters, then     *)
(* one step of the loop per slot.                                          *)
(***************************************************************************)
\* A faulty variant: only the writer vectors that hold entries are counted.
WritersToWait_NonEmpty(writerVectors) ==
    Cardinality({ w \in DOMAIN writerVectors : writerVectors[w] # <<>> })

\* Line 365: _currentWriterVectors.size().
WritersToWait(writerVectors) == Cardinality(DOMAIN writerVectors)

applyBatch ==
    /\ pc = "applyBatch"
    /\ ~aborted
    /\ \E order \in SessionOrders :
        LET r == fillWriterVectors(currentBatchToApply, currentDerivedOps, order) IN
        IF IsOK(r.status)
            THEN /\ currentDerivedOps' = r.derivedOps
                 /\ currentWriterVectors' = r.writerVectors
                 /\ currentApplyBatchPromise' = PromisePending
                 /\ remainingWritersToWait' = WritersToWait(r.writerVectors)
                 /\ currentBatchConsolidatedStatus' = StatusOK
                 /\ loopIdx' = 0
                 /\ writer' = [w \in Slots |-> IdleWriter]
                 /\ mutex' = mutex
                 /\ pc' = "applying"
                 /\ pendingError' = pendingError
            ELSE /\ pc' = "onError"
                 /\ pendingError' = r.status
                 /\ UNCHANGED << currentDerivedOps, currentWriterVectors, accountingVars >>
    /\ applied' = {}
    /\ badReports' = {}
    /\ reports' = <<>>
    /\ completions' = <<>>
    /\ UNCHANGED << stage, result, aborted, iterToken, fetched,
                    currentBatchToApply, worldVars, expected, progressAtFetch,
                    appliedBefore, ckptLast, entered >>

\* A report made by the thread of _applyBatch ends before the loop goes on.
InlineReportsDone ==
    \A v \in Slots : (v < loopIdx /\ writer[v].inline) => writer[v].st = "done"

\* A faulty variant: the status of the pool is dropped and OK reported.
ScheduleFailedReport_OK(w) ==
    [IdleWriter EXCEPT !.st = "toReport", !.status = StatusOK, !.inline = TRUE]

\* Lines 376-377: the callback is run with a non-OK scheduleStatus and
\* passes it to _onWriterVectorDone.
ScheduleFailedReport(w) ==
    [IdleWriter EXCEPT !.st = "toReport", !.status = St("ScheduleFailed", w),
                       !.inline = TRUE]

\* A faulty variant: no writer vector counts as empty.
empty_Never(writerVector) == FALSE

\* Line 370: writer.empty().
empty(writerVector) == writerVector = <<>>

applyBatchLoop ==
    /\ pc = "applying"
    /\ ~aborted
    /\ loopIdx < NumThreads
    /\ InlineReportsDone
    /\ \/ /\ empty(currentWriterVectors[loopIdx])
          /\ writer' = [writer EXCEPT ![loopIdx] =
                [IdleWriter EXCEPT !.st = "toReport", !.status = StatusOK,
                                   !.inline = TRUE]]
       \/ /\ ~empty(currentWriterVectors[loopIdx])
          /\ writer' = [writer EXCEPT ![loopIdx] = [IdleWriter EXCEPT !.st = "running"]]
       \/ /\ ~empty(currentWriterVectors[loopIdx])
          /\ writer' = [writer EXCEPT ![loopIdx] = ScheduleFailedReport(loopIdx)]
    /\ loopIdx' = loopIdx + 1
    /\ UNCHANGED << stage, pc, result, pendingError, aborted, iterToken, fetched,
                    batchVars, remainingWritersToWait,
                    currentBatchConsolidatedStatus, currentApplyBatchPromise,
                    mutex, worldVars, historyVars >>

(***************************************************************************)
(* _applyOplogBatchPerWorker: the work item of slot w applies the entries  *)
(* of its writer vector in order and stops at the first that fails.        *)
(***************************************************************************)
\* The work item after the entry at idx + 1 returned Status::OK().
Advance(item, len) ==
    IF item.idx + 1 = len
        THEN [item EXCEPT !.idx = 0, !.imageDone = FALSE, !.st = "toReport",
                          !.status = StatusOK]
        ELSE [item EXCEPT !.idx = @ + 1, !.imageDone = FALSE]

\* A faulty variant: the entry that failed is passed over and the work
\* item goes on.
AfterFailure_GoesOn(item, w) == Advance(item, Len(currentWriterVectors[w]))

\* The work item after an entry failed: applyOplogBatchCommon returns the
\* status without applying the entries behind it.
AfterFailure(item, w) ==
    [item EXCEPT !.idx = 0, !.imageDone = FALSE, !.st = "toReport",
                 !.status = St("ApplyFailed", w)]

applyOplogBatchPerWorker(w) ==
    /\ writer[w].st = "running"
    /\ ~aborted
    /\ LET op == currentWriterVectors[w][writer[w].idx + 1]
           next == Advance(writer[w], Len(currentWriterVectors[w]))
       IN
       \/ \* the entry fails
          /\ writer' = [writer EXCEPT ![w] = AfterFailure(@, w)]
          /\ UNCHANGED << dest, applied >>
       \/ \* a derived no-op whose statement needs no write
          /\ isRetryableNoOp(op)
          /\ ~writer[w].imageDone
          /\ RetryableSkips(dest, op)
          /\ writer' = [writer EXCEPT ![w] = next]
          /\ applied' = applied \cup {<<op.ts, TRUE>>}
          /\ UNCHANGED dest
       \/ \* a derived no-op: the image entry
          /\ isRetryableNoOp(op)
          /\ ~writer[w].imageDone
          /\ ~RetryableSkips(dest, op)
          /\ op.img # "none"
          /\ dest' = insertPrePostImageOplogEntry(dest, op)
          /\ writer' = [writer EXCEPT ![w].imageDone = TRUE]
          /\ UNCHANGED applied
       \/ \* a derived no-op: the marker entry and the session record
          /\ isRetryableNoOp(op)
          /\ \/ writer[w].imageDone
             \/ ~RetryableSkips(dest, op) /\ op.img = "none"
          /\ dest' = UpdateConfigTransaction(dest, op)
          /\ writer' = [writer EXCEPT ![w] = next]
          /\ applied' = applied \cup {<<op.ts, TRUE>>}
       \/ \* an entry of the batch
          /\ ~isRetryableNoOp(op)
          /\ dest' = applyOplogEntryOrGroupedInserts(dest, op)
          /\ writer' = [writer EXCEPT ![w] = next]
          /\ applied' = applied \cup {<<op.ts, FALSE>>}
    /\ UNCHANGED << stage, pc, result, pendingError, aborted, iterToken, fetched,
                    batchVars, remainingWritersToWait,
                    currentBatchConsolidatedStatus, currentApplyBatchPromise,
                    loopIdx, mutex, donorVars, progressStore, restarts, expected,
                    badReports, progressAtFetch, appliedBefore, ckptLast, entered,
                    batchHistoryVars >>

(***************************************************************************)
(* _onWriterVectorDone: the part under _mutex, then the promise.           *)
(***************************************************************************)
\* A faulty variant: every report overwrites the consolidated status.
ConsolidateStatus_LastWins(current, status) == status

\* A faulty variant: the first non-OK status is kept.
ConsolidateStatus_FirstWins(current, status) == IF IsOK(current) THEN status ELSE current

\* Lines 578-582.
ConsolidateStatus(current, status) == IF ~IsOK(status) THEN status ELSE current

\* A faulty variant: the final status is taken with one writer still outstanding.
AllWritersReported_OneLeft(remaining) == remaining <= 1

\* A faulty variant: the test of the counter is never true.
AllWritersReported_Never(remaining) == remaining < 0

\* Line 584: the report that finds no writer left takes the final status.
AllWritersReported(remaining) == remaining = 0

\* A faulty variant: the lock guard lives until _onWriterVectorDone returns.
MutexAfterReport_HeldToReturn(w) == w

\* Lines 571-589: the lock guard is local to the lambda that takes the
\* final status, so _mutex is free when the lambda has returned.
MutexAfterReport(w) == NoOwner

onWriterVectorDone(w) ==
    /\ writer[w].st = "toReport"
    /\ ~aborted
    /\ mutex = NoOwner
    /\ IF remainingWritersToWait > 0
          THEN LET remaining == remainingWritersToWait - 1
                   consolidated == ConsolidateStatus(currentBatchConsolidatedStatus,
                                                     writer[w].status)
               IN  /\ remainingWritersToWait' = remaining
                   /\ currentBatchConsolidatedStatus' = consolidated
                   /\ writer' = [writer EXCEPT ![w] =
                        IF AllWritersReported(remaining)
                            THEN [@ EXCEPT !.st = "toComplete", !.status = consolidated]
                            ELSE [@ EXCEPT !.st = "done", !.status = NoStatus]]
                   /\ mutex' = IF AllWritersReported(remaining)
                                  THEN MutexAfterReport(w) ELSE NoOwner
                   /\ badReports' = IF IsOK(writer[w].status) THEN badReports
                                     ELSE badReports \cup {writer[w].status}
                   /\ reports' = Append(reports, [slot |-> w, status |-> writer[w].status])
                   /\ aborted' = aborted
          ELSE /\ aborted' = TRUE
               /\ UNCHANGED << remainingWritersToWait, currentBatchConsolidatedStatus,
                               writer, mutex, badReports, reports >>
    /\ UNCHANGED << stage, pc, result, pendingError, iterToken, fetched, batchVars,
                    currentApplyBatchPromise, loopIdx, worldVars, expected,
                    applied, progressAtFetch, appliedBefore, ckptLast, entered,
                    completions >>

\* Lines 593-599: emplaceValue() or setError(*finalStatus), without the mutex.
readyPromise(w) ==
    /\ writer[w].st = "toComplete"
    /\ ~aborted
    /\ currentApplyBatchPromise' = writer[w].status
    /\ writer' = [writer EXCEPT ![w] = [@ EXCEPT !.st = "done", !.status = NoStatus]]
    /\ mutex' = NoOwner
    /\ completions' = Append(completions, w)
    /\ UNCHANGED << stage, pc, result, pendingError, aborted, iterToken, fetched,
                    batchVars, remainingWritersToWait,
                    currentBatchConsolidatedStatus, loopIdx, worldVars, expected,
                    applied, badReports, progressAtFetch, appliedBefore, ckptLast,
                    entered, reports >>

(***************************************************************************)
(* The continuations of the future _applyBatch returned (lines 317-351).   *)
(***************************************************************************)
\* _applyBatch has returned and its promise is ready.
BatchFutureReady ==
    /\ pc = "applying"
    /\ ~aborted
    /\ loopIdx = NumThreads
    /\ InlineReportsDone
    /\ currentApplyBatchPromise \notin {PromiseUnset, PromisePending}

\* The promise holds an error: the continuations are skipped.
applyBatchFailed ==
    /\ BatchFutureReady
    /\ ~IsOK(currentApplyBatchPromise)
    /\ pendingError' = currentApplyBatchPromise
    /\ pc' = "onError"
    /\ UNCHANGED << stage, result, aborted, iterToken, fetched, batchVars,
                    accountingVars, worldVars, historyVars >>

\* A faulty variant: an empty batch finishes the applier from kStarted.
StageAfterEmptyBatch_SkipsReached(s) ==
    IF s \in {kStarted, kReachedCloningTS} THEN kFinished ELSE s

\* A faulty variant: an empty batch leaves the stage alone.
StageAfterEmptyBatch_Kept(s) == s

\* Lines 318-327: the stage after an empty batch.
StageAfterEmptyBatch(s) ==
    IF s = kStarted THEN kReachedCloningTS
    ELSE IF s = kReachedCloningTS THEN kFinished
    ELSE s

emptyBatchApplied ==
    /\ BatchFutureReady
    /\ IsOK(currentApplyBatchPromise)
    /\ currentBatchToApply = <<>>
    /\ stage' = StageAfterEmptyBatch(stage)
    /\ pc' = "idle"
    /\ result' = StatusOK
    /\ writer' = [w \in Slots |-> IdleWriter]
    /\ UNCHANGED << pendingError, aborted, iterToken, fetched, batchVars,
                    remainingWritersToWait, currentBatchConsolidatedStatus,
                    currentApplyBatchPromise, loopIdx, mutex, worldVars,
                    historyVars >>

\* A faulty variant: the buffers are cleared before the upsert is tried.
storeProgressFails_ClearedFirst ==
    /\ BatchFutureReady
    /\ IsOK(currentApplyBatchPromise)
    /\ currentBatchToApply # <<>>
    /\ currentBatchToApply' = <<>>
    /\ currentDerivedOps' = <<>>
    /\ pendingError' = St("UpsertFailed", -1)
    /\ pc' = "onError"
    /\ UNCHANGED << stage, result, aborted, iterToken, fetched,
                    currentWriterVectors, accountingVars, worldVars, historyVars >>

\* store.upsert throws in _clearAppliedOpsAndStoreProgress.
storeProgressFails ==
    /\ BatchFutureReady
    /\ IsOK(currentApplyBatchPromise)
    /\ currentBatchToApply # <<>>
    /\ pendingError' = St("UpsertFailed", -1)
    /\ pc' = "onError"
    /\ UNCHANGED << stage, result, aborted, iterToken, fetched, batchVars,
                    accountingVars, worldVars, historyVars >>

\* A faulty variant: the clone timestamp stops the run in every stage.
ReachedCloneFinishedTs_AnyStage(s, lastAppliedTs) == lastAppliedTs >= CloneFinishedTs

\* A faulty variant: the clone timestamp itself does not stop the run.
ReachedCloneFinishedTs_Strict(s, lastAppliedTs) ==
    s = kStarted /\ lastAppliedTs > CloneFinishedTs

\* Lines 337-344: whether the run stops after a checkpoint.
ReachedCloneFinishedTs(s, lastAppliedTs) ==
    s = kStarted /\ lastAppliedTs >= CloneFinishedTs

\* A faulty variant: the buffer keeps the entries of the batch.
clear_Kept(buffer) == buffer

\* Lines 636-637: _currentBatchToApply.clear() and _currentDerivedOps.clear().
clear(buffer) == <<>>

\* Lines 329-351 with _clearAppliedOpsAndStoreProgress: the progress is
\* upserted, both buffers are cleared (the writer vectors point into them),
\* and the run stops or schedules the next batch.
clearAppliedOpsAndStoreProgress ==
    /\ BatchFutureReady
    /\ IsOK(currentApplyBatchPromise)
    /\ currentBatchToApply # <<>>
    /\ LET lastOplog == LastApplied(currentBatchToApply)
           oplogId == ParseDonorOplogId(lastOplog.id)
           store == UpsertProgress(progressStore, MySourceId, oplogId)
       IN  /\ progressStore' = store
           /\ donorLog' = SelectSeq(donorLog,
                  LAMBDA b : LastOplog(b).ts > ResumeTs(store, MySourceId))
           /\ ckptLast' = << LastOplog(InFlightBatch).id >>
           /\ IF ReachedCloneFinishedTs(stage, lastOplog.ts)
                 THEN /\ stage' = kReachedCloningTS
                      /\ pc' = "idle"
                      /\ result' = StatusOK
                 ELSE /\ pc' = "fetch"
                      /\ UNCHANGED << stage, result >>
    /\ currentBatchToApply' = clear(currentBatchToApply)
    /\ currentDerivedOps' = clear(currentDerivedOps)
    /\ currentWriterVectors' = [w \in Slots |-> <<>>]
    /\ writer' = [w \in Slots |-> IdleWriter]
    /\ applied' = {}
    /\ reports' = <<>>
    /\ completions' = <<>>
    /\ UNCHANGED << pendingError, aborted, iterToken, fetched,
                    remainingWritersToWait, currentBatchConsolidatedStatus,
                    currentApplyBatchPromise, loopIdx, mutex, nextTs, produced,
                    dest, restarts, expected, badReports, progressAtFetch,
                    appliedBefore, entered >>

\* A faulty variant: the status is returned and the stage kept.
onError_StageKept ==
    /\ pc = "onError"
    /\ ~aborted
    /\ result' = pendingError
    /\ pc' = "idle"
    /\ UNCHANGED << stage, pendingError, aborted, iterToken, fetched, batchVars,
                    accountingVars, worldVars, historyVars >>

\* _onError.
onError ==
    /\ pc = "onError"
    /\ ~aborted
    /\ stage' = kErrorOccurred
    /\ result' = pendingError
    /\ pc' = "idle"
    /\ UNCHANGED << pendingError, aborted, iterToken, fetched, batchVars,
                    accountingVars, worldVars, historyVars >>

(***************************************************************************)
(* The process stops (a crash, or the owner giving up after an error) and  *)
(* a fresh applier is constructed, its iterator resuming after the stored  *)
(* progress.                                                               *)
(***************************************************************************)
Restart ==
    /\ restarts < MaxRestarts
    /\ restarts' = restarts + 1
    /\ stage' = kStarted
    /\ pc' = "idle"
    /\ result' = NoStatus
    /\ pendingError' = NoStatus
    /\ aborted' = FALSE
    /\ fetched' = <<>>
    /\ currentBatchToApply' = <<>>
    /\ currentDerivedOps' = <<>>
    /\ currentWriterVectors' = [w \in Slots |-> <<>>]
    /\ remainingWritersToWait' = 0
    /\ currentBatchConsolidatedStatus' = StatusOK
    /\ currentApplyBatchPromise' = PromiseUnset
    /\ loopIdx' = 0
    /\ writer' = [w \in Slots |-> IdleWriter]
    /\ mutex' = NoOwner
    /\ entered' = NotEntered
    /\ reports' = <<>>
    /\ completions' = <<>>
    /\ iterToken' = ResumeTs(progressStore, MySourceId)
    /\ applied' = {}
    /\ appliedBefore' = appliedBefore \cup { e \in applied : e[2] }
    /\ badReports' = {}
    /\ progressAtFetch' = progressStore
    /\ UNCHANGED << donorLog, nextTs, produced, dest, progressStore, expected,
                    ckptLast >>

Next ==
    \/ applyUntilCloneFinishedTs
    \/ applyUntilDone
    \/ getNextBatchFails
    \/ getNextBatch
    \/ preProcessAndPushOpsToBuffer
    \/ applyBatch
    \/ applyBatchLoop
    \/ \E w \in Slots : applyOplogBatchPerWorker(w)
    \/ \E w \in Slots : onWriterVectorDone(w)
    \/ \E w \in Slots : readyPromise(w)
    \/ applyBatchFailed
    \/ emptyBatchApplied
    \/ storeProgressFails
    \/ clearAppliedOpsAndStoreProgress
    \/ onError
    \/ Restart

Spec == Init /\ [][Next]_vars

(***************************************************************************)
(* Properties.                                                             *)
(***************************************************************************)
\* The writer vectors of the current batch are filled.
Partitioned == pc = "applying"

BatchIdx == 1 .. Len(currentBatchToApply)
DerivedIdx == 1 .. Len(currentDerivedOps)

\* The entries of the batch that are partitioned.
IsRealOp(op) == op.op # "n"

InSlot(op, w) ==
    \E k \in 1 .. Len(currentWriterVectors[w]) : currentWriterVectors[w][k] = op

PosInSlot(op, w) ==
    CHOOSE k \in 1 .. Len(currentWriterVectors[w]) : currentWriterVectors[w][k] = op

SameSlot(a, b) == \E w \in Slots : InSlot(a, w) /\ InSlot(b, w)

SameSessionAndTxn(a, b) ==
    /\ IsRealOp(a) /\ IsRealOp(b)
    /\ a.lsid # NoSession
    /\ a.lsid = b.lsid
    /\ a.txn = b.txn

OriginalOf(d) ==
    CHOOSE a \in { currentBatchToApply[i] : i \in BatchIdx } : a.ts = d.ts

C3_SlotOrder ==
    Partitioned =>
        \A i, j \in BatchIdx : \A w \in Slots :
            LET a == currentBatchToApply[i]
                b == currentBatchToApply[j]
            IN  (i < j /\ InSlot(a, w) /\ InSlot(b, w)) =>
                    /\ PosInSlot(a, w) < PosInSlot(b, w)
                    /\ <<b.ts, FALSE>> \in applied => <<a.ts, FALSE>> \in applied

\* Two records of one slot were applied, the worker of another slot being
\* under way.
C3_Witness ==
    /\ Partitioned
    /\ \E i, j \in BatchIdx : \E w, v \in Slots :
          /\ i < j
          /\ InSlot(currentBatchToApply[i], w) /\ InSlot(currentBatchToApply[j], w)
          /\ <<currentBatchToApply[j].ts, FALSE>> \in applied
          /\ v # w
          /\ writer[v].st = "running"

\* C4: once a writer slot of the batch has reported a non-OK status, the
\* stored progress is the one stored when the batch was fetched.
C4_NoCheckpointAfterFailure ==
    badReports # {} => progressStore = progressAtFetch

\* A run ended in error after a slot failed and another applied its records.
C4_Witness ==
    /\ badReports # {}
    /\ applied # {}
    /\ pc = "idle"
    /\ stage = kErrorOccurred
    /\ ckptLast # <<>>

\* A step of the run of this instance has failed.
Failed == pendingError # NoStatus \/ badReports # {}

\* C5: after a step of a run has failed the run fetches no further batch,
\* and it ends with the stage kErrorOccurred and the failure status
\* returned.
C5_FailureStopsRun ==
    Failed =>
        /\ pc \in {"applying", "onError", "idle"}
        /\ pc = "applying" => pendingError = NoStatus
        /\ pc = "idle" =>
              /\ stage = kErrorOccurred
              /\ result = pendingError
              /\ ~IsOK(result)
              /\ badReports # {} => result \in badReports

\* A run ended because a record could not be applied.
C5_Witness ==
    /\ pc = "idle"
    /\ stage = kErrorOccurred
    /\ result.code = "ApplyFailed"

\* The destination as C6 compares it: the documents, the commands, the
\* session records and the marker entries.
DestView(d) ==
    [docs |-> d.docs, cmds |-> d.cmds, sessions |-> d.sessions, markers |-> d.markers]

\* The progress of a stream that has applied the whole donor oplog.
FinalProgress ==
    IF nextTs = 0 THEN <<>>
    ELSE << [oplogSourceId |-> MySourceId,
             progress |-> [clusterTime |-> nextTs, ts |-> nextTs]] >>

C7_ShadowIdempotent ==
    \A k \in DerivedIdx :
        LET d == currentDerivedOps[k]
            once == insertOplogAndUpdateConfigForRetryable(dest, d)
        IN  /\ insertOplogAndUpdateConfigForRetryable(once, d) = once
            /\ checkStatementExecuted(dest, d) = "new"
                  => checkStatementExecuted(once, d) = "executed"
            /\ checkStatementExecuted(dest, d) = "executed" => once = dest

\* A derived record an earlier instance had applied was applied again after
\* the restart, and its marker was logged once.
C7_Witness ==
    \E k \in DerivedIdx :
        LET d == currentDerivedOps[k] IN
        /\ <<d.ts, TRUE>> \in applied
        /\ <<d.ts, TRUE>> \in appliedBefore
        /\ checkStatementExecuted(dest, d) = "executed"
        /\ dest.markers[<<d.lsid, d.txn, d.stmt>>] = 1

\* C8: checkStoredProgress returns nothing before the first checkpoint of
\* the stream, and afterwards the _id of the last record of the batch
\* checkpointed last; another stream's progress is untouched.
C8_StoredProgress ==
    /\ checkStoredProgress(progressStore, MySourceId) =
          (IF ckptLast = <<>> THEN <<>>
           ELSE << [oplogSourceId |-> MySourceId, progress |-> ckptLast[1]] >>)
    /\ checkStoredProgress(progressStore, OtherSourceId) =
          checkStoredProgress(InitialStore, OtherSourceId)

\* Two batches of two records were checkpointed.
C8_Witness ==
    /\ ckptLast # <<>>
    /\ ckptLast[1].ts = 4
    /\ checkStoredProgress(progressStore, MySourceId) # <<>>

\* C9: the progress is written only when every writer slot of the batch has
\* reported, all of them OK, and the promise holds a value.
C9_CheckpointAfterAllOK ==
    [][ progressStore' # progressStore =>
            /\ remainingWritersToWait = 0
            /\ IsOK(currentBatchConsolidatedStatus)
            /\ currentApplyBatchPromise = StatusOK
            /\ badReports = {}
            /\ loopIdx = NumThreads
            /\ \A w \in Slots : writer[w].st = "done" ]_vars

\* The progress was just written for a batch every slot of which reported OK.
C9_Witness ==
    /\ pc = "fetch"
    /\ ckptLast # <<>>
    /\ progressStore # progressAtFetch
    /\ remainingWritersToWait = 0
    /\ badReports = {}

\* C10: within an instance the stage changes only from kStarted to
\* kReachedCloningTS, from kReachedCloningTS to kFinished, or to
\* kErrorOccurred from a stage other than kFinished.
C10_StageTransitions ==
    [][ (restarts' = restarts /\ stage' # stage) =>
            \/ stage = kStarted /\ stage' = kReachedCloningTS
            \/ stage = kReachedCloningTS /\ stage' = kFinished
            \/ stage \in {kStarted, kReachedCloningTS} /\ stage' = kErrorOccurred ]_vars

\* The first instance went through the stages to kFinished.
C10_Witness ==
    /\ stage = kFinished
    /\ restarts = 0
    /\ ckptLast # <<>>

\* C11: an instance whose stage is kErrorOccurred keeps that stage, starts
\* no run, and fetches, applies and checkpoints nothing: a call of an
\* entry point fails its invariant().
C11_ErrorTerminal ==
    [][ (stage = kErrorOccurred /\ restarts' = restarts) =>
            /\ stage' = kErrorOccurred
            /\ pc' = "idle"
            /\ UNCHANGED << iterToken, fetched, batchVars, writer, dest,
                            progressStore, donorLog, applied, result >> ]_vars

\* A run ended in kErrorOccurred after records were applied, and an entry
\* point called afterwards failed its invariant().
C11_Witness ==
    /\ stage = kErrorOccurred
    /\ aborted
    /\ applied # {}
    /\ entered = kReachedCloningTS

\* C12: a call of applyUntilCloneFinishedTs starts a run only in kStarted
\* and a call of applyUntilDone only in kReachedCloningTS, a call in any
\* other stage failing its invariant(); a run of applyUntilCloneFinishedTs
\* that succeeds ends in kReachedCloningTS and a run of applyUntilDone that
\* succeeds ends in kFinished.
C12_EntryPoints ==
    [][ /\ (pc = "idle" /\ restarts' = restarts) =>
              /\ entered' \in {kStarted, kReachedCloningTS}
              /\ IF stage = entered'
                    THEN pc' = "fetch" /\ aborted' = aborted /\ stage' = stage
                    ELSE aborted' /\ pc' = "idle" /\ stage' = stage
        /\ (pc # "idle" /\ pc' = "idle" /\ IsOK(result') /\ restarts' = restarts) =>
              stage' = (IF entered = kStarted THEN kReachedCloningTS ELSE kFinished)
      ]_vars

\* applyUntilDone succeeded after a checkpoint, in an instance whose run of
\* applyUntilCloneFinishedTs had succeeded.
C12_Witness ==
    /\ pc = "idle"
    /\ IsOK(result)
    /\ entered = kReachedCloningTS
    /\ stage = kFinished
    /\ restarts = 0
    /\ ckptLast # <<>>

\* The entries of the buffer come from the batch fetched last.
FromInFlightBatch(buffer) ==
    \A i \in 1 .. Len(buffer) :
        \E j \in 1 .. Len(InFlightBatch) : InFlightBatch[j].id = buffer[i].id

\* C13: a fetch starts only when the batch before it has been checkpointed
\* and cleared (and never after a failure), and the buffers and the writer
\* vectors hold entries of one batch only, the batch fetched last.
C13_OneBatchAtATime ==
    /\ pc = "fetch" =>
          /\ currentBatchToApply = <<>>
          /\ currentDerivedOps = <<>>
          /\ fetched = <<>>
          /\ \A w \in Slots : writer[w].st = "idle" /\ currentWriterVectors[w] = <<>>
          /\ ResumeTs(progressStore, MySourceId) = iterToken
          /\ ~Failed
    /\ Len(currentBatchToApply) <= Len(InFlightBatch)
    /\ FromInFlightBatch(currentBatchToApply)
    /\ FromInFlightBatch(currentDerivedOps)
    /\ \A w \in Slots : FromInFlightBatch(currentWriterVectors[w])

\* The second batch of a run is being applied, the first one checkpointed.
C13_Witness ==
    /\ Partitioned
    /\ restarts = 0
    /\ produced = 2
    /\ ckptLast # <<>>
    /\ applied # {}
    /\ Len(currentBatchToApply) = 2

\* The non-OK reports of the current batch, in the order they took _mutex.
BadReportSeq == SelectSeq(reports, LAMBDA r : ~IsOK(r.status))

\* The promise of the batch has been readied.
PromiseReady == currentApplyBatchPromise \notin {PromiseUnset, PromisePending}

\* C14 as stated: the status delivered to the waiter of the batch is the
\* first non-OK status reported.
C14_FirstNonOKDelivered ==
    (PromiseReady /\ BadReportSeq # <<>>) =>
        currentApplyBatchPromise = BadReportSeq[1].status

\* C14 as amended: the status delivered to the waiter of the batch is the
\* non-OK status reported last.
C14_LastNonOKDelivered ==
    (PromiseReady /\ BadReportSeq # <<>>) =>
        currentApplyBatchPromise = BadReportSeq[Len(BadReportSeq)].status

\* Two slots of a batch reported different non-OK statuses and the promise
\* was readied.
C14_Witness ==
    /\ PromiseReady
    /\ Len(BadReportSeq) = 2
    /\ BadReportSeq[1].status # BadReportSeq[2].status
    /\ currentApplyBatchPromise = BadReportSeq[2].status

\* C15: the status delivered to the waiter of the batch is OK exactly when
\* every slot reported OK; otherwise it is one of the non-OK statuses
\* reported, whatever was reported after it.
C15_StickyStatus ==
    PromiseReady =>
        /\ IsOK(currentApplyBatchPromise) <=>
              \A i \in 1 .. Len(reports) : IsOK(reports[i].status)
        /\ ~IsOK(currentApplyBatchPromise) =>
              \E i \in 1 .. Len(reports) : reports[i].status = currentApplyBatchPromise

\* A slot reported a non-OK status, the other slot reported OK after it,
\* and the non-OK status was delivered.
C15_Witness ==
    /\ PromiseReady
    /\ Len(reports) = NumThreads
    /\ ~IsOK(reports[1].status)
    /\ \A i \in 2 .. Len(reports) : IsOK(reports[i].status)
    /\ currentApplyBatchPromise = reports[1].status

\* The number of reports slot w has made for the current batch.
ReportsOf(w) == Cardinality({ i \in 1 .. Len(reports) : reports[i].slot = w })

\* C16: while a batch is applied each slot reports at most once, and once
\* when its work is over; the promise is readied at most once, by the slot
\* whose report was the last of all the slots, and not while a slot is
\* outstanding.
C16_ExactlyOnce ==
    Partitioned =>
        /\ \A w \in Slots :
              ReportsOf(w) = (IF writer[w].st \in {"toComplete", "done"} THEN 1 ELSE 0)
        /\ remainingWritersToWait = NumThreads - Len(reports)
        /\ Len(completions) <= 1
        /\ PromiseReady <=> Len(completions) = 1
        /\ Len(completions) = 1 =>
              /\ Len(reports) = NumThreads
              /\ remainingWritersToWait = 0
              /\ completions[1] = reports[NumThreads].slot

\* The promise was readied by the inline report of an empty slot, the
\* worker of the other slot having reported before it.
C16_Witness ==
    /\ Partitioned
    /\ Len(completions) = 1
    /\ writer[completions[1]].inline
    /\ \E w \in Slots : ~writer[w].inline /\ ReportsOf(w) = 1 /\ applied # {}

\* C17: the step that readies the promise of the batch is taken with
\* _mutex free, touches neither the counter nor the consolidated status,
\* and is the last step of its thread: the report is over, and the loop of
\* _applyBatch has handled every slot.
C17_ReadyWithoutMutex ==
    [][ /\ (currentApplyBatchPromise' # currentApplyBatchPromise /\ PromiseReady') =>
              /\ mutex = NoOwner
              /\ mutex' = NoOwner
              /\ UNCHANGED << remainingWritersToWait, currentBatchConsolidatedStatus >>
              /\ loopIdx = NumThreads
              /\ \E w \in Slots :
                    /\ writer[w].st = "toComplete"
                    /\ writer'[w].st = "done"
                    /\ \A v \in Slots \ {w} : writer[v].st = "done"
        /\ \A w \in Slots :
              writer[w].st = "done" => writer'[w].st \in {"done", "idle"}
      ]_vars

\* A worker of the pool readied the promise with an error, the mutex free.
C17_Witness ==
    /\ Partitioned
    /\ PromiseReady
    /\ ~IsOK(currentApplyBatchPromise)
    /\ Len(completions) = 1
    /\ ~writer[completions[1]].inline
    /\ mutex = NoOwner

\* uasserted(4990401).
OutOfOrderTxn == St("OutOfOrderTxn4990401", -1)

\* A record of the batch carries a lower transaction number than an
\* earlier record of the batch of the same session.
LowerTxnInBatch(batch) ==
    \E i, j \in 1 .. Len(batch) :
        /\ i < j
        /\ IsRealOp(batch[i]) /\ IsRealOp(batch[j])
        /\ batch[i].lsid # NoSession
        /\ batch[i].lsid = batch[j].lsid
        /\ batch[j].txn < batch[i].txn

\* C18: a batch in which a transaction number of a session decreases is
\* never partitioned, and when partitioning has failed for it no worker
\* was scheduled, nothing of the batch was applied or derived, and the
\* progress is the one stored when the batch was fetched.
C18_OutOfOrderInBatch ==
    /\ Partitioned => ~LowerTxnInBatch(currentBatchToApply)
    /\ (pendingError = OutOfOrderTxn \/ result = OutOfOrderTxn) =>
          /\ LowerTxnInBatch(currentBatchToApply)
          /\ applied = {}
          /\ reports = <<>>
          /\ currentDerivedOps = <<>>
          /\ \A w \in Slots : writer[w].st = "idle" /\ currentWriterVectors[w] = <<>>
          /\ progressStore = progressAtFetch
          /\ currentApplyBatchPromise # PromisePending

\* The second batch of a run failed for a decreasing transaction number,
\* the first one checkpointed.
C18_Witness ==
    /\ result = OutOfOrderTxn
    /\ pc = "idle"
    /\ stage = kErrorOccurred
    /\ restarts = 0
    /\ ckptLast # <<>>

\* C19 as stated: a record whose transaction number is below the one its
\* session has reached in an earlier batch of this instance is fatal, so a
\* batch holding such a record is never partitioned.
C19_LowerTxnAlwaysFatal ==
    (Partitioned /\ restarts = 0 /\ applied = {}) =>
        \A i \in BatchIdx :
            LET a == currentBatchToApply[i] IN
            (IsRealOp(a) /\ a.lsid # NoSession) => a.txn >= dest.sessions[a.lsid].txn

\* C19 as amended: a decrease of the transaction number of a session is
\* fatal within a batch; a derived record of a partitioned batch whose
\* transaction number is below the one of the session record is skipped
\* as TransactionTooOld and writes nothing.
C19_LowerTxnAcrossBatches ==
    Partitioned =>
        /\ ~LowerTxnInBatch(currentBatchToApply)
        /\ \A k \in DerivedIdx :
              LET d == currentDerivedOps[k] IN
              d.txn < dest.sessions[d.lsid].txn =>
                  /\ checkStatementExecuted(dest, d) = "TransactionTooOld"
                  /\ RetryableSkips(dest, d)
                  /\ applyOplogEntryOrGroupedInserts(dest, d) = dest

\* In an instance without restart a record with a transaction number below
\* the one its session reached in an earlier batch was applied, and its
\* derived record was skipped.
C19_Witness ==
    /\ Partitioned
    /\ restarts = 0
    /\ \E k \in DerivedIdx :
          LET d == currentDerivedOps[k] IN
          /\ d.txn < dest.sessions[d.lsid].txn
          /\ <<d.ts, FALSE>> \in applied
          /\ <<d.ts, TRUE>> \in applied
          /\ dest.markers[<<d.lsid, d.txn, d.stmt>>] = 0

\* A run that was entered in kStarted ends without error on an empty batch.
EmptyBatchEndsRunInStarted ==
    /\ pc = "applying"
    /\ pc' = "idle"
    /\ stage = kStarted
    /\ currentBatchToApply = <<>>
    /\ IsOK(result')

\* C20 as stated: the run that ends on an empty batch in kStarted leaves
\* the stage at kStarted.
C20_EmptyBatchLeavesStage ==
    [][ EmptyBatchEndsRunInStarted => stage' = kStarted ]_vars

\* C20 as amended: the run that ends on an empty batch in kStarted is
\* successful, applies nothing, writes no progress, and moves the stage to
\* kReachedCloningTS.
C20_EmptyBatchReachesCloningTS ==
    [][ /\ EmptyBatchEndsRunInStarted =>
              /\ stage' = kReachedCloningTS
              /\ result' = StatusOK
              /\ applied = {}
              /\ UNCHANGED << dest, progressStore, iterToken >>
        /\ (pc = "applying" /\ currentBatchToApply = <<>> /\ restarts' = restarts) =>
              /\ pc' \in {"applying", "idle"}
              /\ UNCHANGED << dest, progressStore >>
      ]_vars

\* The stage is kReachedCloningTS although the donor has produced no record
\* and nothing was applied or stored.
C20_Witness ==
    /\ stage = kReachedCloningTS
    /\ pc = "idle"
    /\ IsOK(result)
    /\ restarts = 0
    /\ nextTs = 0
    /\ ckptLast = <<>>
    /\ progressStore = InitialStore

\* The session record of destination d holds the statement of record a.
Executed(d, a) ==
    /\ d.sessions[a.lsid].txn = a.txn
    /\ a.stmt \in d.sessions[a.lsid].stmts

\* Record a of the batch carries a session.
CarriesSession(a) == IsRealOp(a) /\ a.lsid # NoSession

\* Record a carries the highest transaction number of its session in batch.
HighestTxnInBatch(a, batch) ==
    \A j \in 1 .. Len(batch) :
        (CarriesSession(batch[j]) /\ batch[j].lsid = a.lsid) => batch[j].txn <= a.txn

\* The progress document of this stream for the batch fetched last.
ProgressOfInFlightBatch ==
    << [oplogSourceId |-> MySourceId, progress |-> LastOplog(InFlightBatch).id] >>

\* The step that writes the progress of a batch applied successfully.
CheckpointStep == progressStore' # progressStore

\* C21 as stated: when a batch has been applied successfully, every record
\* of the batch that carries a session has its (session, transaction
\* number, statement id) recorded as executed on the destination, and the
\* progress written is the _id of the last record of the batch.
C21_AllSessionRecordsExecuted ==
    [][ CheckpointStep =>
            /\ \A i \in BatchIdx :
                  CarriesSession(currentBatchToApply[i])
                      => Executed(dest', currentBatchToApply[i])
            /\ checkStoredProgress(progressStore', MySourceId) = ProgressOfInFlightBatch
      ]_vars

\* C21 as amended: when a batch has been applied successfully, every record
\* of the batch that carries a session and the highest transaction number
\* of that session in the batch is recorded as executed on the destination,
\* unless the history of the session is incomplete or the session record
\* holds a higher transaction number; and the progress written is the _id
\* of the last record of the batch.
C21_HighestTxnRecordsExecuted ==
    [][ CheckpointStep =>
            /\ \A i \in BatchIdx :
                  LET a == currentBatchToApply[i] IN
                  (CarriesSession(a) /\ HighestTxnInBatch(a, currentBatchToApply)) =>
                      \/ Executed(dest', a)
                      \/ a.lsid \in dest'.incomplete
                      \/ a.txn < dest'.sessions[a.lsid].txn
            /\ checkStoredProgress(progressStore', MySourceId) = ProgressOfInFlightBatch
            /\ dest' = dest
      ]_vars

\* A batch of two records of one transaction was checkpointed, both
\* statements recorded, each with its marker.
C21_Witness ==
    /\ ckptLast # <<>>
    /\ ckptLast[1].ts = 2
    /\ restarts = 0
    /\ badReports = {}
    /\ dest.sessions[1] = [txn |-> 1, stmts |-> {0, 1}]
    /\ dest.markers[<<1, 1, 0>>] = 1
    /\ dest.markers[<<1, 1, 1>>] = 1
    /\ dest.images = 1

\* The records of the batch that carry session s and the highest
\* transaction number of s in the batch, in the order of the batch.
HighestTxnOps(batch, s) ==
    SelectSeq(batch, LAMBDA a : /\ CarriesSession(a)
                                /\ a.lsid = s
                                /\ HighestTxnInBatch(a, batch))

\* The derived records of session s, in the order of _currentDerivedOps.
DerivedOf(s) == SelectSeq(currentDerivedOps, LAMBDA d : d.lsid = s)

\* C22: when a batch has been partitioned, the list tracked for a session
\* holds the records of the session's highest transaction number of the
\* batch in batch order (an equal number appended, a greater one
\* restarting the list), and the derived records of the session are one
\* per record of that list, in that order; a record of a lower transaction
\* number of the batch has no derived record.
C22_SessionTracking ==
    Partitioned =>
        LET scan == FillScan(currentBatchToApply, 1, [w \in Slots |-> <<>>], EmptyTracker)
        IN  /\ \A s \in Sessions :
                  LET ops == HighestTxnOps(currentBatchToApply, s) IN
                  /\ scan.tracker[s].ops = ops
                  /\ ops # <<>> => scan.tracker[s].txnNum = ops[1].txn
                  /\ Len(DerivedOf(s)) = Len(ops)
                  /\ \A k \in 1 .. Len(ops) :
                        /\ DerivedOf(s)[k].ts = ops[k].ts
                        /\ DerivedOf(s)[k].txn = ops[k].txn
                        /\ DerivedOf(s)[k].stmt = ops[k].stmt
                        /\ isRetryableNoOp(DerivedOf(s)[k])
            /\ \A k \in DerivedIdx : currentDerivedOps[k].lsid \in Sessions
            /\ \A i \in BatchIdx :
                  LET a == currentBatchToApply[i] IN
                  (CarriesSession(a) /\ ~HighestTxnInBatch(a, currentBatchToApply))
                      => \A k \in DerivedIdx : currentDerivedOps[k].ts # a.ts

\* A batch of two records of one session was partitioned, the second with
\* a greater transaction number: only the second has a derived record.
C22_Witness ==
    /\ Partitioned
    /\ Len(currentBatchToApply) = 2
    /\ CarriesSession(currentBatchToApply[1])
    /\ CarriesSession(currentBatchToApply[2])
    /\ currentBatchToApply[1].lsid = currentBatchToApply[2].lsid
    /\ currentBatchToApply[1].txn < currentBatchToApply[2].txn
    /\ Len(currentDerivedOps) = 1
    /\ currentDerivedOps[1].ts = currentBatchToApply[2].ts

\* The no-op records the iterator returned with the batch.
SourceNoOps == { currentBatchToApply[i] : i \in { j \in BatchIdx : ~IsRealOp(currentBatchToApply[j]) } }

\* The entries of the writer vectors.
SlotEntries ==
    UNION { { currentWriterVectors[w][k] : k \in 1 .. Len(currentWriterVectors[w]) } :
            w \in Slots }

\* C23: when a batch has been partitioned, no no-op record of the batch is
\* in a writer slot, in a tracked list or the origin of a derived record,
\* whatever session and transaction number it carries; every no-op in a
\* slot is a derived record with the resharding tag.
C23_NoOpsFiltered ==
    Partitioned =>
        LET scan == FillScan(currentBatchToApply, 1, [w \in Slots |-> <<>>], EmptyTracker)
        IN  /\ \A a \in SourceNoOps :
                  /\ \A e \in SlotEntries : e # a /\ e.ts # a.ts
                  /\ \A k \in DerivedIdx : currentDerivedOps[k].ts # a.ts
                  /\ \A s \in Sessions : \A k \in 1 .. Len(scan.tracker[s].ops) :
                        scan.tracker[s].ops[k].ts # a.ts
            /\ \A s \in Sessions :
                  (scan.tracker[s].ops # <<>>) =>
                      \E i \in BatchIdx :
                          /\ IsRealOp(currentBatchToApply[i])
                          /\ currentBatchToApply[i].lsid = s
                          /\ currentBatchToApply[i].txn = scan.tracker[s].txnNum
            /\ \A e \in SlotEntries :
                  e.op = "n" =>
                      /\ isRetryableNoOp(e)
                      /\ \E k \in DerivedIdx : currentDerivedOps[k] = e

\* A batch was partitioned whose first record is a no-op carrying a
\* greater transaction number than the record of the same session behind
\* it: the record behind it has its derived record and was applied.
C23_Witness ==
    /\ Partitioned
    /\ Len(currentBatchToApply) = 2
    /\ currentBatchToApply[1].op = "n"
    /\ CarriesSession(currentBatchToApply[2])
    /\ currentBatchToApply[1].lsid = currentBatchToApply[2].lsid
    /\ currentBatchToApply[1].txn > currentBatchToApply[2].txn
    /\ Len(currentDerivedOps) = 1
    /\ <<currentBatchToApply[2].ts, TRUE>> \in applied

\* What C24 states of a derived record d and the record r it was derived
\* from, but for the namespace: a no-op with the resharding tag whose o2
\* is the serialized r and whose session, transaction number, statement id
\* and pre/post image are those of r.
ShadowOf(d, r) ==
    /\ d.op = "n"
    /\ d.obj = kReshardingOplogTag
    /\ d.o2 = Serialize(r)
    /\ d.o2[1] = r.ts /\ d.o2[2] = r.op /\ d.o2[4] = r.doc
    /\ d.lsid = r.lsid /\ d.lsid # NoSession
    /\ d.txn = r.txn
    /\ d.stmt = r.stmt
    /\ d.img = r.img
    /\ d.id = r.id

\* C24 as stated: a derived record is the shadow of its original record
\* and its namespace is cleared.
C24_ShadowNamespaceCleared ==
    Partitioned =>
        \A k \in DerivedIdx :
            LET d == currentDerivedOps[k] IN
            /\ ShadowOf(d, OriginalOf(d))
            /\ d.ns = ""

\* C24 as amended: a derived record is the shadow of its original record;
\* it keeps the namespace of the original and has no collection uuid.
C24_ShadowKeepsNamespace ==
    Partitioned =>
        \A k \in DerivedIdx :
            LET d == currentDerivedOps[k] IN
            /\ \E i \in BatchIdx : currentBatchToApply[i].ts = d.ts
            /\ ShadowOf(d, OriginalOf(d))
            /\ d.ns = OriginalOf(d).ns
            /\ d.ns = "outputNs"
            /\ d.uuid = "none"

\* The derived record of an update with a post-image was applied: it
\* carries the post-image, and the image entry was logged once.
C24_Witness ==
    /\ Partitioned
    /\ \E k \in DerivedIdx :
          LET d == currentDerivedOps[k] IN
          /\ d.img = "post"
          /\ OriginalOf(d).op = "u"
          /\ <<d.ts, TRUE>> \in applied
    /\ dest.images = 1

\* The (session, transaction number, statement) of the records that carry
\* a pre- or post-image.
ImageKeys ==
    { <<s.lsid, s.txn, s.stmt>> : s \in { r \in RecordShapes : r.img # "none" } }

\* The number of marker entries logged for records that carry an image.
ImageMarkers ==
    Cardinality({ p \in ImageKeys \X (1 .. (MaxBatches * MaxBatchLen)) :
                      p[2] <= dest.markers[p[1]] })

\* C25 as stated: the image entries, the marker entries and the session
\* records are written together: there are as many image entries as
\* marker entries of records with an image, and a marker entry exists for
\* exactly the statements of the session record.
C25_ImageAtomicWithMarker ==
    /\ dest.images = ImageMarkers
    /\ \A k \in MarkerKeys :
          (dest.sessions[k[1]].txn = k[2]) =>
              (dest.markers[k] > 0 <=> k[3] \in dest.sessions[k[1]].stmts)

\* C25 as amended: the marker entry and the session record are written
\* together, and never before the image entry of the record; the image
\* entry is written in a unit of its own, so there are at least as many
\* image entries as marker entries of records with an image.
C25_MarkerAtomicWithSession ==
    /\ dest.images >= ImageMarkers
    /\ \A k \in MarkerKeys :
          /\ (dest.sessions[k[1]].txn = k[2]) =>
                (dest.markers[k] > 0 <=> k[3] \in dest.sessions[k[1]].stmts)
          /\ dest.markers[k] <= 1

\* After an image entry was logged the process restarted before the marker
\* entry was: the next instance logged the image entry again, then the
\* marker entry.
C25_Witness ==
    /\ restarts = 1
    /\ dest.images = 2
    /\ ImageMarkers = 1
    /\ \E k \in ImageKeys : dest.markers[k] = 1 /\ k[3] \in dest.sessions[k[1]].stmts

\* Every writer vector of the current batch is empty.
AllSlotsEmpty == \A w \in Slots : currentWriterVectors[w] = <<>>

\* The statuses slot w has reported for the current batch.
ReportedBy(w) == { reports[i].status : i \in { j \in 1 .. Len(reports) : reports[j].slot = w } }

\* C26: while a batch is applied the loop of _applyBatch handles each slot
\* once, in order; an empty slot is never run by the pool and its report,
\* made by the thread of the loop, is OK; a slot that is not empty is handed
\* to the pool once: it is run by a worker, or the pool reports that it
\* could not be scheduled.  When every slot is empty nothing is applied, no
\* worker runs, and the promise holds OK as soon as the loop is over.
C26_EmptySlotsInline ==
    Partitioned =>
        /\ \A w \in Slots :
              /\ writer[w].st = "idle" <=> w >= loopIdx
              /\ writer[w].st = "running" => ReportsOf(w) = 0
              /\ currentWriterVectors[w] = <<>> =>
                    /\ writer[w].st # "running"
                    /\ w < loopIdx => writer[w].inline
                    /\ writer[w].st = "toReport" => writer[w].status = StatusOK
                    /\ ReportedBy(w) \subseteq {StatusOK}
              /\ (currentWriterVectors[w] # <<>> /\ w < loopIdx) =>
                    IF writer[w].inline
                        THEN /\ writer[w].st = "toReport"
                                    => writer[w].status = St("ScheduleFailed", w)
                             /\ ReportedBy(w) \subseteq {St("ScheduleFailed", w)}
                        ELSE \/ writer[w].st = "running"
                             \/ ReportsOf(w) = 1 \/ writer[w].st = "toReport"
        /\ AllSlotsEmpty =>
              /\ applied = {}
              /\ PromiseReady => currentApplyBatchPromise = StatusOK
              /\ (loopIdx = NumThreads /\ InlineReportsDone) =>
                    currentApplyBatchPromise = StatusOK

\* The loop found one slot empty and scheduled the other; the worker of
\* the other applied a record and the promise holds OK.
C26_Witness ==
    /\ Partitioned
    /\ currentApplyBatchPromise = StatusOK
    /\ \E w, v \in Slots :
          /\ currentWriterVectors[w] = <<>>
          /\ writer[w].inline
          /\ currentWriterVectors[v] # <<>>
          /\ ~writer[v].inline
          /\ ReportsOf(v) = 1
    /\ applied # {}

\* How applied names an entry of a writer vector.
SlotKey(e) == <<e.ts, isRetryableNoOp(e)>>

\* The positions of the writer vector of slot w whose entries were applied.
AppliedIdx(w) ==
    { k \in 1 .. Len(currentWriterVectors[w]) :
          SlotKey(currentWriterVectors[w][k]) \in applied }

\* The statuses slot w has reported or is about to report.
StatusesOf(w) ==
    ReportedBy(w) \cup (IF writer[w].st = "toReport" THEN {writer[w].status} ELSE {})

\* What C27 states of a state in which a batch is applied.
FailStop ==
    /\ \A w \in Slots :
          LET n == Len(currentWriterVectors[w])
              done == Cardinality(AppliedIdx(w))
          IN  /\ AppliedIdx(w) = 1 .. done
              /\ writer[w].st = "running" => done = writer[w].idx /\ done < n
              /\ St("ApplyFailed", w) \in StatusesOf(w) => done < n
              /\ (StatusOK \in StatusesOf(w)) => done = n
    /\ PromiseReady =>
          /\ Len(reports) = NumThreads
          /\ \A w \in Slots : writer[w].st \notin {"idle", "running", "toReport"}
          /\ (\E w \in Slots : St("ApplyFailed", w) \in ReportedBy(w))
                => ~IsOK(currentApplyBatchPromise)

\* C27: the entries applied of a slot are a prefix of its writer vector; a
\* slot whose worker failed has an entry that was not applied and none
\* applied behind it; a worker stops only when its own vector is done or
\* one of its own entries failed, whatever the other slots reported, and a
\* slot that reported OK had all its entries applied; the promise is
\* readied, with an error, only when every slot has reported.
C27_FailStopPerSlot ==
    [][ Partitioned' =>
            /\ FailStop'
            /\ \A v \in Slots :
                  (pc = "applying" /\ writer[v].st = "running"
                                   /\ writer'[v].st # "running") =>
                      /\ writer'[v].st = "toReport"
                      /\ writer'[v].status \in {StatusOK, St("ApplyFailed", v)}
                      /\ \A w \in Slots \ {v} : writer'[w] = writer[w]
      ]_vars

\* The worker of a slot applied an entry and failed on the one behind it,
\* and reported; the worker of the other slot is still applying its
\* entries.
C27_Witness ==
    /\ Partitioned
    /\ \E w, v \in Slots :
          /\ w # v
          /\ St("ApplyFailed", w) \in ReportedBy(w)
          /\ Cardinality(AppliedIdx(w)) = 1
          /\ Len(currentWriterVectors[w]) >= 2
          /\ writer[v].st = "running"
          /\ writer[v].idx = 1
    /\ ~PromiseReady

\* The pool could not schedule the work item of slot w.
ScheduleFailed(w) == St("ScheduleFailed", w)

\* C28: a slot that is not empty and was not run by a worker reports the
\* status of the pool and nothing else; none of its entries is applied; its
\* report is counted once and consolidated like the status of a worker that
\* failed; the batch then ends with a non-OK status, the stage
\* kErrorOccurred and the progress that was stored when it was fetched.
C28_ScheduleFailure ==
    /\ Partitioned =>
          \A w \in Slots :
              /\ (currentWriterVectors[w] # <<>> /\ writer[w].inline) =>
                    /\ StatusesOf(w) \subseteq {ScheduleFailed(w)}
                    /\ writer[w].st \in {"toReport", "toComplete", "done"}
              /\ ScheduleFailed(w) \in StatusesOf(w) =>
                    /\ AppliedIdx(w) = {}
                    /\ currentWriterVectors[w] # <<>>
                    /\ writer[w].st # "running"
              /\ ScheduleFailed(w) \in ReportedBy(w) =>
                    /\ ReportsOf(w) = 1
                    /\ remainingWritersToWait = NumThreads - Len(reports)
                    /\ ScheduleFailed(w) \in badReports
                    /\ ~IsOK(currentBatchConsolidatedStatus)
                    /\ PromiseReady =>
                          /\ ~IsOK(currentApplyBatchPromise)
                          /\ currentApplyBatchPromise \in badReports
    /\ \A w \in Slots :
          ScheduleFailed(w) \in badReports =>
              /\ progressStore = progressAtFetch
              /\ pc \in {"applying", "onError", "idle"}
              /\ pc = "idle" =>
                    /\ stage = kErrorOccurred
                    /\ ~IsOK(result)
                    /\ result \in badReports

\* A run ended with the status of the pool for one slot, the worker of the
\* other slot having applied an entry.
C28_Witness ==
    /\ pc = "idle"
    /\ stage = kErrorOccurred
    /\ result.code = "ScheduleFailed"
    /\ applied # {}
    /\ AppliedIdx(result.slot) = {}
    /\ Len(reports) = NumThreads

\* store.upsert has thrown.
UpsertFailed == St("UpsertFailed", -1)

\* C29: the step that writes the progress of a batch also empties both
\* buffers, and no other step of an instance empties a buffer that holds
\* entries; when the upsert fails the progress and both buffers are left
\* as they were and the run ends in kErrorOccurred; both buffers are empty
\* whenever a batch is about to be fetched.
C29_UpsertThenClear ==
    [][ /\ CheckpointStep =>
              /\ currentBatchToApply # <<>>
              /\ currentBatchToApply' = <<>>
              /\ currentDerivedOps' = <<>>
              /\ checkStoredProgress(progressStore', MySourceId) = ProgressOfInFlightBatch
              /\ stage' # kErrorOccurred
              /\ pendingError' = NoStatus
        /\ (restarts' = restarts /\ currentBatchToApply # <<>>
                                 /\ currentBatchToApply' # currentBatchToApply)
              => (CheckpointStep /\ currentBatchToApply' = <<>>)
        /\ (restarts' = restarts /\ currentDerivedOps # <<>>
                                 /\ currentDerivedOps' # currentDerivedOps)
              => (CheckpointStep /\ currentDerivedOps' = <<>>)
        /\ (pendingError # UpsertFailed /\ pendingError' = UpsertFailed) =>
              /\ currentBatchToApply # <<>>
              /\ UNCHANGED << currentBatchToApply, currentDerivedOps, progressStore >>
              /\ pc' = "onError"
        /\ (pendingError' = UpsertFailed /\ pc' = "idle") =>
              /\ stage' = kErrorOccurred
              /\ result' = UpsertFailed
              /\ currentBatchToApply' # <<>>
              /\ progressStore' = progressAtFetch'
        /\ pc' = "fetch" => (currentBatchToApply' = <<>> /\ currentDerivedOps' = <<>>)
      ]_vars

\* The upsert failed for the second batch of a run: the run ended in
\* kErrorOccurred with the records of the batch and their derived records
\* in the buffers, the progress being that of the first batch.
C29_Witness ==
    /\ pc = "idle"
    /\ stage = kErrorOccurred
    /\ result = UpsertFailed
    /\ restarts = 0
    /\ currentBatchToApply # <<>>
    /\ currentDerivedOps # <<>>
    /\ ckptLast # <<>>
    /\ ckptLast[1].ts < currentBatchToApply[1].ts

\* The batch fetched last is empty and the run has not ended yet.
EmptyBatchInFlight ==
    \/ pc = "preprocess" /\ fetched = <<>>
    \/ pc \in {"applyBatch", "applying"} /\ currentBatchToApply = <<>>

\* C30: from the fetch of an empty batch on, the instance writes neither
\* progress nor data, fails nowhere and fetches nothing more; the run ends
\* with OK, and the step that ends it moves the stage from kStarted to
\* kReachedCloningTS or from kReachedCloningTS to kFinished, no other step
\* of the run touching the stage.
C30_EmptyBatchAdvancesOneStage ==
    [][ (EmptyBatchInFlight /\ restarts' = restarts) =>
            /\ UNCHANGED << progressStore, dest, iterToken, ckptLast >>
            /\ pendingError' = NoStatus
            /\ pc' \in {"applyBatch", "applying", "idle"}
            /\ stage \in {kStarted, kReachedCloningTS}
            /\ IF pc' = "idle"
                  THEN /\ result' = StatusOK
                       /\ stage = kStarted => stage' = kReachedCloningTS
                       /\ stage = kReachedCloningTS => stage' = kFinished
                  ELSE stage' = stage
      ]_vars

\* The donor never produced a record: the first run ended on an empty
\* batch in kReachedCloningTS and the second in kFinished, no progress
\* written.
C30_Witness ==
    /\ stage = kFinished
    /\ pc = "idle"
    /\ result = StatusOK
    /\ restarts = 0
    /\ nextTs = 0
    /\ entered = kReachedCloningTS
    /\ checkStoredProgress(progressStore, MySourceId) = <<>>

\* C31: the step that writes the progress of a batch stops the run, with
\* OK and the stage kReachedCloningTS, exactly when the stage is kStarted
\* and the timestamp of the last record of the batch is at least the clone
\* timestamp; otherwise it keeps the stage and goes on to the next fetch.
\* The stage becomes kFinished only by a run that ends on an empty batch
\* in kReachedCloningTS.
C31_StopAtCloneFinishedTs ==
    [][ /\ CheckpointStep =>
              /\ InFlightBatch # <<>>
              /\ stage \in {kStarted, kReachedCloningTS}
              /\ IF stage = kStarted /\ LastOplog(InFlightBatch).ts >= CloneFinishedTs
                    THEN /\ stage' = kReachedCloningTS
                         /\ pc' = "idle"
                         /\ result' = StatusOK
                    ELSE /\ stage' = stage
                         /\ pc' = "fetch"
                         /\ result' = result
        /\ (stage # kFinished /\ stage' = kFinished) =>
              /\ stage = kReachedCloningTS
              /\ currentBatchToApply = <<>>
              /\ ~CheckpointStep
              /\ pc' = "idle"
      ]_vars

\* In kReachedCloningTS a batch was checkpointed and the run went on to
\* the next fetch; in kStarted the batch before it had stopped the run at
\* the clone timestamp.
C31_Witness ==
    /\ stage = kReachedCloningTS
    /\ entered = kReachedCloningTS
    /\ pc = "fetch"
    /\ restarts = 0
    /\ progressStore # progressAtFetch
    /\ ckptLast # <<>>
    /\ ckptLast[1].ts > CloneFinishedTs

(***************************************************************************)
(* Runs of one instance under fair scheduling: the executor runs the next  *)
(* continuation of the chain, the pool runs the work items it accepted,    *)
(* and every call of a collaborator returns.  The donor returns an empty   *)
(* batch after MaxBatches batches.  The owner calls the entry points when  *)
(* it wants, so they are not fair.                                         *)
(***************************************************************************)
\* A step of the chain of _scheduleNextBatch or of a writer.
PipelineStep ==
    \/ getNextBatchFails
    \/ getNextBatch
    \/ preProcessAndPushOpsToBuffer
    \/ applyBatch
    \/ applyBatchLoop
    \/ \E w \in Slots : applyOplogBatchPerWorker(w)
    \/ \E w \in Slots : onWriterVectorDone(w)
    \/ \E w \in Slots : readyPromise(w)
    \/ applyBatchFailed
    \/ emptyBatchApplied
    \/ storeProgressFails
    \/ clearAppliedOpsAndStoreProgress
    \/ onError

RunNext ==
    \/ applyUntilCloneFinishedTs
    \/ applyUntilDone
    \/ PipelineStep

LiveSpec == Init /\ [][RunNext]_vars /\ WF_vars(PipelineStep)

\* A run of an entry point is under way.
Running == pc # "idle"

\* The run has ended.
RunEnded ==
    /\ pc = "idle"
    /\ stage \in {kReachedCloningTS, kFinished, kErrorOccurred}
    /\ result # NoStatus
    /\ currentApplyBatchPromise # PromisePending

\* C32: under fair scheduling every run of an entry point ends, in
\* kReachedCloningTS, kFinished or kErrorOccurred, and with it the promise
\* of the batch that was started last is readied: a promise is pending
\* only while a run is under way.
C32_RunsComplete ==
    (Running \/ currentApplyBatchPromise = PromisePending) ~> RunEnded

\* The donor produced all its batches, all of full length, and two runs
\* applied them and ended in kFinished.
C32_Witness ==
    /\ pc = "idle"
    /\ stage = kFinished
    /\ result = StatusOK
    /\ produced = MaxBatches
    /\ nextTs = MaxBatches * MaxBatchLen
    /\ ckptLast # <<>>
    /\ ckptLast[1].ts = nextTs

\* The slots of the current batch that have not reported yet.
Outstanding == { w \in Slots : writer[w].st \in {"idle", "running", "toReport"} }

\* C33: the counter of outstanding writers is between 0 and the number of
\* slots; while a batch is applied it is the number of slots that have not
\* reported, so it is positive whenever a slot is about to report; and
\* invariant(_remainingWritersToWait > 0) never fails: only a call of an
\* entry point in the wrong stage aborts.
C33_CounterInRange ==
    [][ /\ remainingWritersToWait' \in 0 .. NumThreads
        /\ Partitioned' =>
              /\ remainingWritersToWait' = Cardinality(Outstanding')
              /\ \A w \in Slots : writer'[w].st = "toReport" => remainingWritersToWait' > 0
        /\ (remainingWritersToWait' # remainingWritersToWait /\ restarts' = restarts) =>
              \/ remainingWritersToWait' = remainingWritersToWait - 1
              \/ pc = "applyBatch" /\ remainingWritersToWait' = NumThreads
        /\ (aborted' /\ ~aborted) =>
              /\ pc = "idle"
              /\ stage # entered'
              /\ \A w \in Slots : writer[w].st # "toReport"
      ]_vars

\* In the second batch of a run the worker of a slot reported before the
\* thread of the loop reported for an empty slot, and the counter is 0.
C33_Witness ==
    /\ Partitioned
    /\ restarts = 0
    /\ produced = 2
    /\ ckptLast # <<>>
    /\ remainingWritersToWait = 0
    /\ Len(reports) = NumThreads
    /\ ~writer[reports[1].slot].inline
    /\ writer[reports[NumThreads].slot].inline

\* The places of the writer vectors that hold entry e.
PlacesOf(e) ==
    { p \in Slots \X (1 .. (2 * MaxBatchLen)) :
          /\ p[2] <= Len(currentWriterVectors[p[1]])
          /\ currentWriterVectors[p[1]][p[2]] = e }

\* The number of entries in the writer vectors.
RECURSIVE SlotEntryCount(_)
SlotEntryCount(w) ==
    IF w >= NumThreads THEN 0
    ELSE Len(currentWriterVectors[w]) + SlotEntryCount(w + 1)

\* The records of the batch that are partitioned.
RealOps == SelectSeq(currentBatchToApply, IsRealOp)

\* C34: when a batch has been partitioned there is one writer vector per
\* thread of the pool; every record of the batch that is not a no-op and
\* every derived record is at exactly one place of the writer vectors, and
\* the writer vectors hold nothing else; in every writer vector the
\* derived records are behind the records of the batch.
C34_ExactlyOnePlace ==
    Partitioned =>
        /\ DOMAIN currentWriterVectors = 0 .. (NumThreads - 1)
        /\ Cardinality(DOMAIN currentWriterVectors) = NumThreads
        /\ \A i \in 1 .. Len(RealOps) : Cardinality(PlacesOf(RealOps[i])) = 1
        /\ \A k \in DerivedIdx : Cardinality(PlacesOf(currentDerivedOps[k])) = 1
        /\ SlotEntryCount(0) = Len(RealOps) + Len(currentDerivedOps)
        /\ \A w \in Slots : \A a, b \in 1 .. Len(currentWriterVectors[w]) :
              (isRetryableNoOp(currentWriterVectors[w][a])
                    /\ ~isRetryableNoOp(currentWriterVectors[w][b])) => b < a

\* Two records of a session and their two derived records are in the
\* writer vectors, one vector holding records of both kinds.
C34_Witness ==
    /\ Partitioned
    /\ Len(RealOps) = 2
    /\ Len(currentDerivedOps) = 2
    /\ SlotEntryCount(0) = 4
    /\ \E w \in Slots : \E a, b \in 1 .. Len(currentWriterVectors[w]) :
          /\ isRetryableNoOp(currentWriterVectors[w][a])
          /\ ~isRetryableNoOp(currentWriterVectors[w][b])

\* The buffer holds a batch and every record of it is a no-op.
OnlyNoOpsInFlight ==
    /\ pc = "applying"
    /\ currentBatchToApply # <<>>
    /\ \A i \in BatchIdx : ~IsRealOp(currentBatchToApply[i])

\* C35: the progress written for a batch is the _id of the last record the
\* iterator returned with it, whether or not that record is a no-op left
\* out of the writer vectors.  A batch that holds only no-ops fills no
\* writer vector, derives nothing and leaves the destination alone; once
\* its future is ready the next step writes its progress, unless the upsert
\* throws, and the stage changes only as the clone timestamp makes it.
C35_ProgressFromLastFetched ==
    [][ /\ CheckpointStep =>
              /\ currentBatchToApply # <<>>
              /\ LastOplog(currentBatchToApply).id = LastOplog(InFlightBatch).id
              /\ checkStoredProgress(progressStore', MySourceId)[1].progress
                    = LastOplog(InFlightBatch).id
        /\ (OnlyNoOpsInFlight /\ restarts' = restarts) =>
              /\ AllSlotsEmpty
              /\ currentDerivedOps = <<>>
              /\ applied = {}
              /\ dest' = dest
              /\ (BatchFutureReady /\ IsOK(currentApplyBatchPromise)) =>
                    (CheckpointStep \/ pc' = "onError")
              /\ (stage' # stage) =>
                    /\ CheckpointStep
                    /\ stage = kStarted
                    /\ stage' = kReachedCloningTS
                    /\ LastOplog(currentBatchToApply).ts >= CloneFinishedTs
      ]_vars

\* The second batch held one record, at the clone timestamp, and left the
\* destination as the insert of the first batch had made it: the record
\* was a no-op, and the progress is its _id.
C35_Witness ==
    /\ restarts = 0
    /\ pc = "idle"
    /\ stage = kReachedCloningTS
    /\ result = StatusOK
    /\ ResumeTs(progressAtFetch, MySourceId) = 1
    /\ ResumeTs(progressStore, MySourceId) = 2
    /\ ckptLast = << [clusterTime |-> 2, ts |-> 2] >>
    /\ dest.docs = [d \in Docs |-> IF d = 1 THEN 1 ELSE 0]
    /\ dest.cmds = {}
    /\ dest.sessions[1] = [txn |-> 1, stmts |-> {0}]
    /\ dest.sessions[2] = [txn |-> kUninitializedTxnNumber, stmts |-> {}]

\* Record r is refused: another namespace, another collection uuid, a
\* prepare or the commit of a prepared transaction.
Refused(r) ==
    \/ r.ns # "nsBeingResharded"
    \/ r.uuid # "uuidBeingResharded"
    \/ r.prep \in {"prepare", "commit"}

\* The batch the iterator returned last holds a refused record.
RefusedBatchInFlight ==
    /\ InFlightBatch # <<>>
    /\ \E i \in 1 .. Len(InFlightBatch) : Refused(InFlightBatch[i])

\* C36: while the batch fetched last holds a record of another namespace
\* or collection uuid, a prepare or a prepared commit, no work item is
\* handed to the pool and no slot reports, no record is applied (the
\* records of reports and of applied entries do not grow), the
\* destination and the progress stay as they are, the stage changes only
\* to kErrorOccurred, and the run ends in kErrorOccurred with a status
\* that is not OK.  Every record in the buffer is on the output namespace
\* and carries no collection uuid.
C36_RefusedRecordsFailBatch ==
    [][ /\ (RefusedBatchInFlight /\ restarts' = restarts) =>
              /\ pc # "applying" /\ pc' # "applying"
              /\ \A w \in Slots : writer[w] = IdleWriter /\ writer'[w] = IdleWriter
              /\ reports' \in {reports, <<>>}
              /\ applied' \subseteq applied
              /\ dest' = dest
              /\ progressStore' = progressStore
              /\ (stage' # stage) => stage' = kErrorOccurred
              /\ (pc # "idle" /\ pc' = "idle") =>
                    /\ stage' = kErrorOccurred
                    /\ ~IsOK(result')
                    /\ result' # NoStatus
        /\ \A i \in 1 .. Len(currentBatchToApply') :
              /\ currentBatchToApply'[i].ns = "outputNs"
              /\ currentBatchToApply'[i].uuid = "none"
      ]_vars

\* A batch of an insert and a record of another collection uuid failed:
\* the insert is in the buffer, on the output namespace, and was not
\* applied; nothing was stored.
C36_Witness ==
    /\ restarts = 0
    /\ pc = "idle"
    /\ stage = kErrorOccurred
    /\ result = St("UuidMismatch5012005", -1)
    /\ Len(InFlightBatch) = 2
    /\ InFlightBatch[1].op = "i"
    /\ InFlightBatch[2].uuid = "otherUuid"
    /\ Len(currentBatchToApply) = 1
    /\ currentBatchToApply[1].ns = "outputNs"
    /\ currentBatchToApply[1].ts = InFlightBatch[1].ts
    /\ dest.docs = [d \in Docs |-> 0]
    /\ progressStore = InitialStore

=============================================================================
